---- MODULE Spec2Model ----
(***************************************************************************)
(* A model of the event detection and correlation pipeline of              *)
(* vigilant-canine: the event bus (src/src/events), the correlation engine *)
(* (src/src/correlation), the audit assembler (src/src/audit), the journal *)
(* rule matcher (src/src/journal), the distributed scanner                 *)
(* (src/src/scanner) and the supervisor's run loop (src/src/daemon).       *)
(*                                                                         *)
(* Each component has its own specification (SpecBus, SpecCorr, ...): the  *)
(* variables of the other components keep their initial value there.       *)
(***************************************************************************)
EXTENDS Integers, Sequences, FiniteSets, TLC

VARIABLES
    \* ---- EventBus (events/event_bus.h:100-102)
    m_handlers,       \* std::vector<HandlerEntry>: <<[id, min_severity]>>
    m_next_id,        \* std::size_t m_next_id{1}
    m_mutex,          \* std::mutex m_mutex: "free" or the thread that holds it
    pub,              \* each publishing thread's position inside publish()
    obs,              \* history: what each publish has done so far
    issued,           \* history: every entry ever subscribed, by id
    unsub             \* the id a caller of unsubscribe() is removing, 0 if none

busVars == <<m_handlers, m_next_id, m_mutex, pub, obs, issued, unsub>>

VARIABLES
    \* ---- CorrelationEngine (correlation/correlation_engine.h:62-72)
    m_rules,            \* std::vector<CorrelationRule>
    m_event_history,    \* std::map<std::string, std::vector<time_point>>
    m_last_fired,       \* std::map<std::string, time_point>
    m_pending_events,   \* std::vector<Event>
    m_pending_mutex,    \* std::mutex: "free", or "drain" inside drain's block
    events_to_publish,  \* the local vector of a running drain_escalated_events()
    drain_pc,           \* where drain_escalated_events() stands
    delivered,          \* history: the events handed to handle_event, in order
    fired,              \* history: every escalation the engine has buffered
    published           \* history: the events drain has published on the bus

corrVars == <<m_rules, m_event_history, m_last_fired, m_pending_events,
              m_pending_mutex, events_to_publish, drain_pc, delivered, fired, published>>

\* Daemon (daemon/daemon.h:141-170) at its run loop: the position of run(),
\* the three atomics, the loaded configuration, which components exist and
\* run, the configuration the distributed scanner and the rules the audit
\* monitor were last handed; history: the order components were stopped in,
\* the number of reloads, and the number of one-second sleeps the run loop
\* completed since it last called drain_escalated_events().
VARIABLES daemon_pc, m_should_stop, m_should_reload, m_running, m_config,
          m_audit_monitor, running, scan_config, audit_rules, stop_order,
          reloads, sleeps_since_drain

daemonVars == <<daemon_pc, m_should_stop, m_should_reload, m_running, m_config,
                m_audit_monitor, running, scan_config, audit_rules, stop_order,
                reloads, sleeps_since_drain>>

\* DistributedScanner (scanner/distributed_scanner.h:115-122): m_running,
\* m_should_stop and m_config.interval_hours (ds_ marks the scanner's own
\* atomics), the worker's position in scanner_loop() with its file list and
\* cursor, the wait_for it is in, the position of a caller of stop(), and the
\* history of how long stop() sat in join() while the worker slept.
VARIABLES ds_running, ds_should_stop, ds_config, worker_pc, files, cursor,
          wait, stop_pc, stop_waited

dscanVars == <<ds_running, ds_should_stop, ds_config, worker_pc, files, cursor,
               wait, stop_pc, stop_waited>>

\* AuditMonitor (audit/audit_monitor.h:71-85; au_ marks the monitor's own
\* m_rules, m_config and m_pending_events): the rules, the exclusions, the
\* pending accumulators by audit id, the number of records processed, and the
\* history of every call of evaluate_event.
VARIABLES au_rules, au_config, au_pending_events, au_records, evaluations

auditVars == <<au_rules, au_config, au_pending_events, au_records, evaluations>>

\* JournalMonitor (journal/journal_monitor.h:69-72; jr_ marks the monitor's own
\* m_rules and m_config): the rules, the configuration, the number of journal
\* entries read, and the history of what the last entry read led to.
VARIABLES jr_rules, jr_config, jr_entries, jr_last

journalVars == <<jr_rules, jr_config, jr_entries, jr_last>>

\* A component that owns a worker thread (FanotifyMonitor, JournalMonitor,
\* AuditMonitor, DistributedScanner; wk_ marks the fields they share): which
\* component it is, whether initialize() succeeded, m_running, m_should_stop,
\* the state of the std::thread member and the worker's position in its loop,
\* the position of the thread that calls start() and stop(), the number of
\* such calls, and as history the last call that returned and the number of
\* events published since a stop() returned.
VARIABLES wk_component, wk_initialized, wk_running, wk_should_stop, wk_thread, wk_worker_pc, wk_ctl, wk_calls, wk_last_call, wk_late

workerVars == <<wk_component, wk_initialized, wk_running, wk_should_stop, wk_thread, wk_worker_pc, wk_ctl, wk_calls, wk_last_call, wk_late>>

\* Scanner and BaselineStore (scanner.cpp, baseline_store.cpp): sc_fs is the
\* live filesystem under the scanned directory, sc_changes counts the changes
\* made to it and the store operations made by other callers, m_store is the
\* baselines table, sc_rowid the last AUTOINCREMENT id, sc_deployment what
\* the strategy's get_deployment_id() returns, sc_run the scan in progress.
\* History: sc_runs the last scans that finished (two when no change was
\* made since the first of them began, marked clean), sc_write the row the running scan wrote
\* last with the file version whose bytes were hashed, sc_verified the last
\* verify_baselines() call, with the store before and after it, while
\* nothing has changed since.
VARIABLES sc_fs, sc_changes, m_store, sc_rowid, sc_deployment, sc_run, sc_runs, sc_write, sc_verified

scanVars == <<sc_fs, sc_changes, m_store, sc_rowid, sc_deployment, sc_run, sc_runs, sc_write, sc_verified>>

\* Database (storage/database.cpp): db_pc is the position of Database::open
\* in init_schema, db_versions the rows of the schema_version table,
\* db_tables the tables that exist in the file, db_result what the last open
\* returned, db_opens the number of opens so far.  History: db_open holds
\* the version the file recorded when the open began, the version
\* init_schema read, and whether the engine failed a statement.
VARIABLES db_pc, db_versions, db_tables, db_open, db_result, db_opens

dbVars == <<db_pc, db_versions, db_tables, db_open, db_result, db_opens>>

\* AlertDispatcher and AlertStore (dispatch/alert_dispatcher.cpp,
\* storage/alert_store.cpp): ad_running is m_running, ad_subscribed the
\* number of entries of the bus that call this dispatcher's handle_event,
\* ad_left the entries the running publish has still to call, ad_config the
\* AlertDispatcherConfig, ad_pc the position of handle_event, ad_alert the
\* alert it is handling, m_alert_store the rows of the alerts table in
\* insertion order.  History: ad_observed the events the handler was called
\* with (each with the number of the publish it came from and m_running at
\* that time), ad_failed the events whose insert failed,
\* ad_sinks the sink calls made, ad_ack the last acknowledge call with the
\* table before it and after the unacknowledge that followed, ad_calls the
\* number of acknowledge and unacknowledge calls.
VARIABLES ad_running, ad_subscribed, ad_left, ad_config, ad_pc, ad_alert,
          m_alert_store, ad_observed, ad_failed, ad_sinks, ad_ack, ad_calls

dispatchVars == <<ad_running, ad_subscribed, ad_left, ad_config, ad_pc, ad_alert,
                  m_alert_store, ad_observed, ad_failed, ad_sinks, ad_ack, ad_calls>>

\* FanotifyMonitor::handle_event (monitor/fanotify_monitor.cpp): fa_pc is
\* its position, fa_exclude the strategy's excluded paths, fa_event the path
\* in hand with the baseline the lookup gave.  History: fa_last is the last
\* event handled: the baselines the store held for the path at the lookup,
\* the file as it was when it was hashed, and what was published.
VARIABLES fa_pc, fa_exclude, fa_event, fa_last

fanotifyVars == <<fa_pc, fa_exclude, fa_event, fa_last>>

\* CorrelationEngine::cleanup_old_entries taken alone: the history map it is
\* called on, the map it leaves, and whether the call has been made.
VARIABLES cl_history, cl_result, cl_pc

cleanupVars == <<cl_history, cl_result, cl_pc>>

\* CorrelationEngine::drain_escalated_events called from several threads
\* (correlation/correlation_engine.cpp:35-48, 116-120): the pending buffer, the
\* owner of m_pending_mutex, each caller's local events_to_publish and
\* position, how many escalations were buffered, and what was published.
VARIABLES dr_pending_events, dr_pending_mutex, dr_events_to_publish, dr_pc, dr_buffered, dr_published

drainsVars == <<dr_pending_events, dr_pending_mutex, dr_events_to_publish, dr_pc, dr_buffered, dr_published>>

\* The reload signal (daemon/daemon.cpp:24-43, 304-337): where each thread of
\* the daemon stands, the signal handler frame running on top of it, the owners
\* of AuditMonitor::m_rules_mutex and DistributedScanner::m_config_mutex, how
\* many SIGHUPs were delivered and how many reloads completed.
VARIABLES rl_pc, rl_handler, rl_rules_mutex, rl_config_mutex, rl_signals, rl_reloaded

reloadVars == <<rl_pc, rl_handler, rl_rules_mutex, rl_config_mutex, rl_signals, rl_reloaded>>

vars == <<busVars, corrVars, daemonVars, dscanVars, auditVars, journalVars, workerVars, scanVars, dbVars, dispatchVars, fanotifyVars, cleanupVars, drainsVars, reloadVars>>

\* What each component's operations leave alone.
notBus == <<corrVars, daemonVars, dscanVars, auditVars, journalVars, workerVars, scanVars, dbVars, dispatchVars, fanotifyVars, cleanupVars, drainsVars, reloadVars>>
notCorr == <<busVars, daemonVars, dscanVars, auditVars, journalVars, workerVars, scanVars, dbVars, dispatchVars, fanotifyVars, cleanupVars, drainsVars, reloadVars>>
notDaemon == <<busVars, corrVars, dscanVars, auditVars, journalVars, workerVars, scanVars, dbVars, dispatchVars, fanotifyVars, cleanupVars, drainsVars, reloadVars>>
notDScan == <<busVars, corrVars, daemonVars, auditVars, journalVars, workerVars, scanVars, dbVars, dispatchVars, fanotifyVars, cleanupVars, drainsVars, reloadVars>>
notAudit == <<busVars, corrVars, daemonVars, dscanVars, journalVars, workerVars, scanVars, dbVars, dispatchVars, fanotifyVars, cleanupVars, drainsVars, reloadVars>>
notJournal == <<busVars, corrVars, daemonVars, dscanVars, auditVars, workerVars, scanVars, dbVars, dispatchVars, fanotifyVars, cleanupVars, drainsVars, reloadVars>>
notWorker == <<busVars, corrVars, daemonVars, dscanVars, auditVars, journalVars, scanVars, dbVars, dispatchVars, fanotifyVars, cleanupVars, drainsVars, reloadVars>>
notScanner == <<busVars, corrVars, daemonVars, dscanVars, auditVars, journalVars, workerVars, dbVars, dispatchVars, fanotifyVars, cleanupVars, drainsVars, reloadVars>>
notDatabase == <<busVars, corrVars, daemonVars, dscanVars, auditVars, journalVars, workerVars, scanVars, dispatchVars, fanotifyVars, cleanupVars, drainsVars, reloadVars>>
notDispatcher == <<busVars, corrVars, daemonVars, dscanVars, auditVars, journalVars, workerVars, scanVars, dbVars, fanotifyVars, cleanupVars, drainsVars, reloadVars>>
notFanotify == <<busVars, corrVars, daemonVars, dscanVars, auditVars, journalVars, workerVars, scanVars, dbVars, dispatchVars, cleanupVars, drainsVars, reloadVars>>
notCleanup == <<busVars, corrVars, daemonVars, dscanVars, auditVars, journalVars, workerVars, scanVars, dbVars, dispatchVars, fanotifyVars, drainsVars, reloadVars>>
notDrains == <<busVars, corrVars, daemonVars, dscanVars, auditVars, journalVars, workerVars, scanVars, dbVars, dispatchVars, fanotifyVars, cleanupVars, reloadVars>>
notReload == <<busVars, corrVars, daemonVars, dscanVars, auditVars, journalVars, workerVars, scanVars, dbVars, dispatchVars, fanotifyVars, cleanupVars, drainsVars>>

-----------------------------------------------------------------------------
(* Shared helpers *)

Range(s) == {s[k] : k \in 1..Len(s)}

\* EventSeverity (events/event.h:23-27): the enumerators compare by value.
info == 0
warning == 1
critical == 2
EventSeverity == {info, warning, critical}

-----------------------------------------------------------------------------
(* EventBus *)

\* Bound: how many subscriptions are ever handed out.
MaxSubs == 3

Publishers == {"p1"}

\* What a handler invocation can do: return, throw a std::exception, or throw
\* anything else.
Outcomes == {"return", "throw_std", "throw_other"}

\* std::optional<EventSeverity> min_severity: <<>> is std::nullopt, <<s>> holds s.

\* publish(), lines 20-24: the filter that decides whether an entry is called.
PassesFilter(entry, severity) ==
    ~(entry.min_severity # <<>> /\ severity < entry.min_severity[1])

\* publish(), lines 27-34: both catch clauses swallow the exception, so the
\* loop goes on with the next entry whatever the handler did.
NextIndexRethrow(i, outcome) ==
    IF outcome = "return" THEN i + 1 ELSE Len(m_handlers) + 1

NextIndex(i, outcome) == i + 1

\* The ids whose unsubscribe() has returned: unsubscribe is the only operation
\* that removes an entry.
Unsubscribed ==
    {id \in 1..Len(issued) : \A k \in 1..Len(m_handlers) : m_handlers[k].id # id}

Ids(handlers) == [k \in 1..Len(handlers) |-> handlers[k].id]

NoObs == [seen |-> <<>>, order |-> <<>>, threw |-> {}, gone |-> {}]

BusIdle ==
    /\ m_handlers = <<>>
    /\ m_next_id = 1
    /\ m_mutex = "free"
    /\ pub = [p \in Publishers |-> [pc |-> "idle", severity |-> info, i |-> 0]]
    /\ obs = [p \in Publishers |-> NoObs]
    /\ issued = <<>>
    /\ unsub = 0

\* No correlation engine is attached.
CorrIdle ==
    /\ m_rules = <<>>
    /\ m_event_history = <<>>
    /\ m_last_fired = <<>>
    /\ m_pending_events = <<>>
    /\ m_pending_mutex = "free"
    /\ events_to_publish = <<>>
    /\ drain_pc = "idle"
    /\ delivered = <<>>
    /\ fired = <<>>
    /\ published = <<>>

\* No daemon object: run() has not been called.
DaemonIdle ==
    /\ daemon_pc = "none"
    /\ m_should_stop = FALSE
    /\ m_should_reload = FALSE
    /\ m_running = FALSE
    /\ m_config = [audit_enabled |-> FALSE, scan |-> 0]
    /\ m_audit_monitor = FALSE
    /\ running = {}
    /\ scan_config = 0
    /\ audit_rules = 0
    /\ stop_order = <<>>
    /\ reloads = 0
    /\ sleeps_since_drain = 0

\* No wait_for is in progress. A wait keeps which of the four it is, where the
\* worker goes on afterwards, the time left, whether a notification is
\* waking it, and as history whether update_config() was called while the
\* worker was blocked in it and how many ticks it slept on after that.
NoWait ==
    [kind |-> "none", next |-> "none", remaining |-> 0, notified |-> FALSE,
     reloaded |-> FALSE, stale |-> 0]

\* No distributed scanner has been started.
DScanIdle ==
    /\ ds_running = FALSE
    /\ ds_should_stop = FALSE
    /\ ds_config = 0
    /\ worker_pc = "none"
    /\ files = 0
    /\ cursor = 0
    /\ wait = NoWait
    /\ stop_pc = "idle"
    /\ stop_waited = 0

\* No audit monitor has been constructed.
AuditIdle ==
    /\ au_rules = <<>>
    /\ au_config = [exclude_comms |-> {}, exclude_uids |-> {}]
    /\ au_pending_events = <<>>
    /\ au_records = 0
    /\ evaluations = <<>>

\* No journal entry has been read.
NoEntry ==
    [entry |-> [message |-> <<>>, priority |-> 0, syslog_identifier |-> <<>>,
                systemd_unit |-> <<>>],
     reached |-> FALSE, out |-> <<>>]

\* No journal monitor has been constructed.
JournalIdle ==
    /\ jr_rules = <<>>
    /\ jr_config = [max_priority |-> 0, exclude_units |-> {},
                    exclude_identifiers |-> {}]
    /\ jr_entries = 0
    /\ jr_last = NoEntry

\* No component with a worker thread has been constructed.
WorkerIdle ==
    /\ wk_component = "none"
    /\ wk_initialized = FALSE
    /\ wk_running = FALSE
    /\ wk_should_stop = FALSE
    /\ wk_thread = "none"
    /\ wk_worker_pc = "none"
    /\ wk_ctl = "idle"
    /\ wk_calls = 0
    /\ wk_last_call = "none"
    /\ wk_late = 0

\* The scanned tree: the regular files the directory iterator can meet, in
\* the order it yields them.
PathOrder == <<"a", "b">>

Paths == Range(PathOrder)

\* get_deployment_id(): nullopt ("none") for the traditional and Btrfs
\* strategies, the deployment checksum for OSTree.
Deployments == {"none", "d1"}

\* A path with no file, a scanner that is not inside a scan, and the
\* histories before anything was written or verified.
NoFile == [present |-> FALSE, content |-> "", mtime_ns |-> 0]

NoMetadata == [size |-> 0, mode |-> "", uid |-> 0, gid |-> 0, mtime_ns |-> 0]

ScanStats == [files_scanned |-> 0, files_added |-> 0, files_updated |-> 0,
              files_unchanged |-> 0, errors |-> 0]

NoRun == [kind |-> "idle", todo |-> <<>>, pc |-> "next", path |-> "",
          metadata |-> NoMetadata, hash |-> <<>>, hashed |-> NoFile,
          stats |-> ScanStats, writes |-> 0, started |-> 0]

NoWrite == [written |-> FALSE, row |-> NoMetadata, hashed |-> NoFile]

NoVerify == [ran |-> FALSE, fs |-> [p \in Paths |-> NoFile], before |-> {},
             after |-> {}, changes |-> <<>>]

\* No Scanner was constructed: empty tree, empty baselines table.
ScannerIdle ==
    /\ sc_fs = [p \in Paths |-> NoFile]
    /\ sc_changes = 0
    /\ m_store = {}
    /\ sc_rowid = 0
    /\ sc_deployment = "none"
    /\ sc_run = NoRun
    /\ sc_runs = <<>>
    /\ sc_write = NoWrite
    /\ sc_verified = NoVerify

\* An open that has not begun: nothing read, no engine error met.
NoOpen == [recorded |-> 0, current_version |-> 0, engine_error |-> FALSE]

\* No database file was opened.
DatabaseIdle ==
    /\ db_pc = "closed"
    /\ db_versions = {}
    /\ db_tables = {}
    /\ db_open = NoOpen
    /\ db_result = "none"
    /\ db_opens = 0

\* No alert in hand, and no acknowledge call on record.
NoAlert == [id |-> 0, severity |-> "", category |-> "", source |-> "",
            acknowledged |-> FALSE, event |-> 0]

NoAck == [stage |-> "none", id |-> 0, before |-> <<>>, after |-> <<>>]

\* A dispatcher as constructed: not started, default configuration.
DispatcherIdle ==
    /\ ad_running = FALSE
    /\ ad_subscribed = 0
    /\ ad_left = 0
    /\ ad_config = [log_to_journal |-> TRUE, send_dbus |-> FALSE]
    /\ ad_pc = "idle"
    /\ ad_alert = NoAlert
    /\ m_alert_store = <<>>
    /\ ad_observed = <<>>
    /\ ad_failed = {}
    /\ ad_sinks = <<>>
    /\ ad_ack = NoAck
    /\ ad_calls = 0

\* No filesystem event in hand, and none handled yet.
NoFanotifyEvent == [path |-> "", found |-> {}]

NoHandled == [handled |-> FALSE, path |-> "", baselines |-> {}, hashed |-> NoFile,
              published |-> <<>>]

\* No filesystem event was received.
FanotifyIdle ==
    /\ fa_pc = "idle"
    /\ fa_exclude = {}
    /\ fa_event = NoFanotifyEvent
    /\ fa_last = NoHandled

\* cleanup_old_entries is not under study.
CleanupIdle ==
    /\ cl_history = <<>>
    /\ cl_result = <<>>
    /\ cl_pc = "none"

\* No thread drains the engine.
DrainsIdle ==
    /\ dr_pending_events = <<>>
    /\ dr_pending_mutex = "none"
    /\ dr_events_to_publish = <<>>
    /\ dr_pc = <<>>
    /\ dr_buffered = 0
    /\ dr_published = <<>>

\* No reload signal is under study.
ReloadIdle ==
    /\ rl_pc = <<>>
    /\ rl_handler = <<>>
    /\ rl_rules_mutex = "none"
    /\ rl_config_mutex = "none"
    /\ rl_signals = 0
    /\ rl_reloaded = 0

\* A thread calls publish(event): it is about to take m_mutex (line 16).
PublishCall(p, severity) ==
    /\ pub[p].pc = "idle"
    /\ pub' = [pub EXCEPT ![p] = [pc |-> "lock", severity |-> severity, i |-> 0]]
    /\ obs' = [obs EXCEPT ![p].gone = Unsubscribed]
    /\ UNCHANGED <<m_handlers, m_next_id, m_mutex, issued, unsub>>
    /\ UNCHANGED notBus

\* std::mutex::lock() (event_bus.h:100, a non-recursive std::mutex over a
\* default pthread mutex): the call returns once the mutex is free, also for
\* the thread that owns it.
lock_returns_recursive(mutex, thread) == mutex \in {"free", thread}

lock_returns(mutex, thread) == mutex = "free"

\* std::lock_guard lock(m_mutex), line 16; the range-for starts at begin().
\* A publish() called from inside a handler ("relock") stands at the same
\* line on the thread that already owns m_mutex.
PublishLock(p) ==
    /\ pub[p].pc \in {"lock", "relock"}
    /\ lock_returns(m_mutex, p)
    /\ m_mutex' = p
    /\ IF pub[p].pc = "lock"
       THEN /\ pub' = [pub EXCEPT ![p].pc = "loop", ![p].i = 1]
            /\ obs' = [obs EXCEPT ![p].seen = Ids(m_handlers)]
       ELSE /\ pub' = [pub EXCEPT ![p].pc = "nested"]
            /\ obs' = obs
    /\ UNCHANGED <<m_handlers, m_next_id, issued, unsub>>
    /\ UNCHANGED notBus

\* The handler called at line 28 calls publish() on the same bus: the
\* publishing thread, inside its loop and holding m_mutex, reaches line 16
\* again.
HandlerPublishes(p) ==
    /\ pub[p].pc = "loop"
    /\ pub[p].i <= Len(m_handlers)
    /\ PassesFilter(m_handlers[pub[p].i], pub[p].severity)
    /\ pub' = [pub EXCEPT ![p].pc = "relock"]
    /\ obs' = [obs EXCEPT ![p].order = Append(@, m_handlers[pub[p].i].id)]
    /\ UNCHANGED <<m_handlers, m_next_id, m_mutex, issued, unsub>>
    /\ UNCHANGED notBus

\* One iteration of the loop of lines 18-35.
PublishStep(p) ==
    /\ pub[p].pc = "loop"
    /\ pub[p].i <= Len(m_handlers)
    /\ LET entry == m_handlers[pub[p].i] IN
       IF ~PassesFilter(entry, pub[p].severity)
       THEN /\ pub' = [pub EXCEPT ![p].i = @ + 1]
            /\ obs' = obs
       ELSE \E outcome \in Outcomes :
            /\ pub' = [pub EXCEPT ![p].i = NextIndex(@, outcome)]
            /\ obs' = [obs EXCEPT
                         ![p].order = Append(@, entry.id),
                         ![p].threw = IF outcome = "return" THEN @
                                      ELSE @ \cup {entry.id}]
    /\ UNCHANGED <<m_handlers, m_next_id, m_mutex, issued, unsub>>
    /\ UNCHANGED notBus

\* The loop of publish() has gone through the whole list: publish() is about
\* to release m_mutex and return.
Finished(p) == pub[p].pc = "loop" /\ pub[p].i > Len(m_handlers)

\* The loop is over: the lock_guard releases m_mutex and publish() returns.
PublishReturn(p) ==
    /\ Finished(p)
    /\ m_mutex' = "free"
    /\ pub' = [pub EXCEPT ![p] = [pc |-> "idle", severity |-> info, i |-> 0]]
    /\ obs' = [obs EXCEPT ![p] = NoObs]
    /\ UNCHANGED <<m_handlers, m_next_id, issued, unsub>>
    /\ UNCHANGED notBus

\* subscribe(handler), lines 38-45.
Subscribe ==
    /\ m_next_id <= MaxSubs
    /\ m_mutex = "free"
    /\ m_handlers' = Append(m_handlers, [id |-> m_next_id, min_severity |-> <<>>])
    /\ issued' = Append(issued, [id |-> m_next_id, min_severity |-> <<>>])
    /\ m_next_id' = m_next_id + 1
    /\ UNCHANGED <<m_mutex, pub, obs, unsub>>
    /\ UNCHANGED notBus

\* subscribe_severity(min_severity, handler), lines 47-57.
SubscribeSeverity(min_severity) ==
    /\ m_next_id <= MaxSubs
    /\ m_mutex = "free"
    /\ m_handlers' = Append(m_handlers,
                            [id |-> m_next_id, min_severity |-> <<min_severity>>])
    /\ issued' = Append(issued, [id |-> m_next_id, min_severity |-> <<min_severity>>])
    /\ m_next_id' = m_next_id + 1
    /\ UNCHANGED <<m_mutex, pub, obs, unsub>>
    /\ UNCHANGED notBus

\* std::remove_if + erase, lines 66-71: the entries that stay keep their
\* relative order.
RemoveIdSwapLast(handlers, id) ==
    LET at == {k \in 1..Len(handlers) : handlers[k].id = id} IN
    IF at = {} THEN handlers
    ELSE LET k == CHOOSE x \in at : TRUE
             moved == [handlers EXCEPT ![k] = handlers[Len(handlers)]]
         IN  SubSeq(moved, 1, Len(handlers) - 1)

RemoveId(handlers, id) ==
    LET Keep(entry) == entry.id # id IN SelectSeq(handlers, Keep)

\* unsubscribe(subscription), lines 59-63: an invalid handle (id 0) returns at
\* once; with a valid one the caller goes on to take m_mutex.
UnsubscribeCall(id) ==
    /\ unsub = 0
    /\ id < m_next_id
    /\ unsub' = (IF id # 0 THEN id ELSE 0)
    /\ UNCHANGED <<m_handlers, m_next_id, m_mutex, pub, obs, issued>>
    /\ UNCHANGED notBus

\* unsubscribe() that forgets to take m_mutex.
UnsubscribeNoLock ==
    /\ unsub # 0
    /\ m_handlers' = RemoveId(m_handlers, unsub)
    /\ unsub' = 0
    /\ UNCHANGED <<m_next_id, m_mutex, pub, obs, issued>>
    /\ UNCHANGED notBus

\* unsubscribe(subscription), lines 64-72: the entry is removed under m_mutex,
\* and unsubscribe() returns.
Unsubscribe ==
    /\ unsub # 0
    /\ m_mutex = "free"
    /\ m_handlers' = RemoveId(m_handlers, unsub)
    /\ unsub' = 0
    /\ UNCHANGED <<m_next_id, m_mutex, pub, obs, issued>>
    /\ UNCHANGED notBus

BusNext ==
    \/ \E p \in Publishers, severity \in EventSeverity : PublishCall(p, severity)
    \/ \E p \in Publishers : PublishLock(p)
    \/ \E p \in Publishers : PublishStep(p)
    \/ \E p \in Publishers : PublishReturn(p)
    \/ Subscribe
    \/ \E min_severity \in EventSeverity : SubscribeSeverity(min_severity)
    \/ \E id \in 0..MaxSubs : UnsubscribeCall(id)
    \/ Unsubscribe

InitBus ==
    /\ BusIdle
    /\ CorrIdle
    /\ DaemonIdle
    /\ DScanIdle
    /\ AuditIdle
    /\ JournalIdle
    /\ WorkerIdle
    /\ ScannerIdle
    /\ DatabaseIdle
    /\ DispatcherIdle
    /\ FanotifyIdle
    /\ CleanupIdle
    /\ DrainsIdle
    /\ ReloadIdle

SpecBus == InitBus /\ [][BusNext]_vars

-----------------------------------------------------------------------------
(* Claims about the event bus *)

\* How often id occurs in a sequence of ids.
Count(s, id) == Cardinality({k \in 1..Len(s) : s[k] = id})

\* The claims' own reading of "eligible": no minimum, or minimum <= severity.
Eligible(entry, severity) ==
    entry.min_severity = <<>> \/ entry.min_severity[1] <= severity

\* C1: when a publish is about to return, every handler that was subscribed
\* when the publish took the subscriber list has been invoked exactly once if
\* it is eligible for the event's severity and not at all otherwise, whatever
\* the other handlers did (returned or threw).
C1_EveryEligibleHandlerOnce ==
    \A p \in Publishers :
        Finished(p) =>
            \A id \in Range(obs[p].seen) :
                Count(obs[p].order, id) =
                    IF Eligible(issued[id], pub[p].severity) THEN 1 ELSE 0

\* C1 witness: a finished publish in which a handler threw, a later handler
\* was still invoked, and a third handler was skipped by the filter.
C1_Witness ==
    \E p \in Publishers :
        /\ Finished(p)
        /\ \E id1, id2, id3 \in Range(obs[p].seen) :
            /\ id1 < id2
            /\ id1 \in obs[p].threw
            /\ Count(obs[p].order, id2) = 1
            /\ ~Eligible(issued[id3], pub[p].severity)
            /\ Count(obs[p].order, id3) = 0

\* C6: unsubscription is atomic with respect to publishes. No handler is ever
\* invoked twice by one publish; a publish that began after unsubscribe(id)
\* returned never invokes id; and when a publish is about to return, every
\* handler it saw that has not been unsubscribed was invoked according to the
\* filter, so no other subscriber is skipped because of a removal.
C6_UnsubscribeAtomic ==
    \A p \in Publishers :
        /\ \A id \in 1..Len(issued) : Count(obs[p].order, id) <= 1
        /\ \A id \in obs[p].gone : Count(obs[p].order, id) = 0
        /\ Finished(p) =>
            \A id \in Range(obs[p].seen) \ Unsubscribed :
                Count(obs[p].order, id) =
                    IF Eligible(issued[id], pub[p].severity) THEN 1 ELSE 0

\* C6 witness: a publish that began after an unsubscribe had returned is about
\* to return, having invoked two handlers, while a caller of unsubscribe() for
\* the first of them has been waiting for m_mutex.
C6_Witness ==
    \E p \in Publishers :
        /\ Finished(p)
        /\ obs[p].gone # {}
        /\ Len(obs[p].order) = 2
        /\ unsub = obs[p].order[1]

\* C14: within one publish the eligible handlers run on the publishing thread
\* in the order in which they subscribed (ids are handed out in subscription
\* order), and when publish is about to return every eligible handler it
\* found has run: the invocations are exactly the eligible subscribers, in
\* subscription order.
C14_SubscriptionOrder ==
    \A p \in Publishers :
        /\ \A i, j \in 1..Len(obs[p].order) :
              i < j => obs[p].order[i] < obs[p].order[j]
        /\ \A i, j \in 1..Len(obs[p].seen) :
              i < j => obs[p].seen[i] < obs[p].seen[j]
        /\ Finished(p) =>
              LET eligible(id) == Eligible(issued[id], pub[p].severity)
              IN  obs[p].order = SelectSeq(obs[p].seen, eligible)

\* C14 witness: the first subscriber has unsubscribed, and a publish that
\* began afterwards is about to return having run the second subscriber
\* and then the third.
C14_Witness ==
    \E p \in Publishers :
        /\ Finished(p)
        /\ 1 \in obs[p].gone
        /\ obs[p].order = <<2, 3>>

-----------------------------------------------------------------------------
(* CorrelationEngine *)

\* Bounds: how many events are delivered, how far the timestamps spread, the
\* largest threshold and window of a rule, and the wall-clock reading the
\* timestamps start from (seconds since the epoch; a default-constructed
\* time_point is the epoch, 0).
MaxEvents == 3
MaxTime == 2
MaxThreshold == 3
MaxWindow == 2
ClockBase == 10

\* static constexpr std::size_t MAX_TRACKED_KEYS = 1000
MAX_TRACKED_KEYS == 1000

\* Event::timestamp is the wall clock at the event's construction; events reach
\* the engine in the order their publishers take the bus, and the wall clock
\* can be set back, so the timestamps of successive deliveries are not ordered.
Times == ClockBase .. (ClockBase + MaxTime)

\* The match keys of the model, in the order std::map<std::string, ...> keeps
\* them (event_type_name, events/event.cpp:12-38).
KeyOrder == <<"FileCreated", "FileModified", "SuspiciousLog">>
MatchKeys == {"FileCreated", "FileModified"}

\* An event as the engine reads it: get_match_key(event), event.timestamp,
\* event.source; severity and rule_name matter for escalated events only.
TrackedEvents ==
    [key : MatchKeys, timestamp : Times, source : {"test"},
     severity : {warning}, rule_name : {""}]

\* The rule vectors the engine is constructed with: one rule, or two rules
\* that may match the same event type with different windows; the second rule
\* may also match SuspiciousLog, the type of the engine's own escalations.
Rule1s ==
    [name : {"r1"}, event_match : {"FileCreated"}, threshold : 1..MaxThreshold,
     window : 1..MaxWindow, escalated_severity : {warning, critical}]
Rule2s ==
    [name : {"r2"}, event_match : MatchKeys \cup {"SuspiciousLog"}, threshold : {2},
     window : {MaxWindow}, escalated_severity : {critical}]
RuleSets ==
    {<<a>> : a \in Rule1s} \cup
    {<<a, b>> : a \in {r \in Rule1s : r.escalated_severity = critical}, b \in Rule2s}

\* std::map::operator[]: the value, default-constructed when the key is new.
MapGet(m, k, default) == IF k \in DOMAIN m THEN m[k] ELSE default
MapPut(m, k, v) == [x \in DOMAIN m \cup {k} |-> IF x = k THEN v ELSE m[x]]

\* should_track, lines 133-140.
should_track_everything(event) == TRUE

should_track(event) == event.source # "correlation_engine"

\* cleanup_old_entries, lines 142-151: past MAX_TRACKED_KEYS keys, the first
\* half of the map (begin() to begin() + size / 2, in the key order
\* that std::map keeps) is erased.
erase_first_half(history, order) ==
    IF Cardinality(DOMAIN history) > MAX_TRACKED_KEYS
    THEN LET present(k) == k \in DOMAIN history
             sorted == SelectSeq(order, present)
             erased == {sorted[i] : i \in 1..(Len(sorted) \div 2)}
         IN  [k \in DOMAIN history \ erased |-> history[k]]
    ELSE history

cleanup_old_entries(history) == erase_first_half(history, KeyOrder)

\* Lines 85-88: remove_if drops the timestamps before window_start.
Trim(history, window_start) ==
    LET keep(ts) == ~(ts < window_start) IN SelectSeq(history, keep)

\* Line 93: if (count >= rule.threshold).
ThresholdReached(count, rule) == count >= rule.threshold

\* Lines 95-100: the rule is still in its debounce period.
DebouncedNever(now, last_fired, rule) == FALSE

Debounced(now, last_fired, rule) == now - last_fired < rule.window

\* Lines 102-114: the escalated event (its own timestamp, the wall clock at
\* construction, is read by nobody: the triggering timestamp stands in).
EscalatedEvent(rule, now) ==
    [key |-> "SuspiciousLog", timestamp |-> now, source |-> "correlation_engine",
     severity |-> rule.escalated_severity, rule_name |-> rule.name]

\* Lines 116-120: under m_pending_mutex, m_pending_events.push_back(event);
\* nothing is published.
push_back_nowhere(pending, event) == pending

push_back(pending, event) == Append(pending, event)

\* The loop of lines 73-125 from rule k on; st carries the engine's state and
\* the escalations buffered by this call.
RECURSIVE CheckRules(_, _, _, _)
CheckRules(k, match_key, now, st) ==
    IF k > Len(m_rules) THEN st
    ELSE LET rule == m_rules[k] IN
         IF match_key # rule.event_match THEN CheckRules(k + 1, match_key, now, st)
         ELSE LET history == Trim(st.history[match_key], now - rule.window)
                  trimmed == [st EXCEPT !.history[match_key] = history]
                  last_fired == MapGet(st.last_fired, rule.name, 0)
              IN  IF ~ThresholdReached(Len(history), rule)
                  THEN CheckRules(k + 1, match_key, now, trimmed)
                  ELSE IF Debounced(now, last_fired, rule)
                  THEN CheckRules(k + 1, match_key, now,
                           [trimmed EXCEPT
                              !.last_fired = MapPut(@, rule.name, last_fired)])
                  ELSE CheckRules(k + 1, match_key, now,
                           [trimmed EXCEPT
                              !.pending = push_back(@, EscalatedEvent(rule, now)),
                              !.last_fired = MapPut(@, rule.name, now),
                              !.escalations = Append(@, rule.name)])

\* handle_event, lines 55-126.
handle_event(event) ==
    LET st == [history |-> m_event_history, last_fired |-> m_last_fired,
               pending |-> m_pending_events, escalations |-> <<>>]
    IN  IF ~should_track(event) THEN st
        ELSE LET cleaned == cleanup_old_entries(m_event_history)
                 pushed == MapPut(cleaned, event.key,
                                  Append(MapGet(cleaned, event.key, <<>>),
                                         event.timestamp))
             IN  CheckRules(1, event.key, event.timestamp,
                            [st EXCEPT !.history = pushed])

\* The engine's handler runs for an event published on the bus.
Handle(event) ==
    LET st == handle_event(event) IN
    /\ m_event_history' = st.history
    /\ m_last_fired' = st.last_fired
    /\ m_pending_events' = st.pending
    /\ delivered' = Append(delivered, event)
    /\ fired' = fired \o [k \in 1..Len(st.escalations) |->
                            [rule |-> st.escalations[k], at |-> event.timestamp,
                             index |-> Len(delivered) + 1]]

\* CorrelationEngine(event_bus, rules) and start(), lines 15-27.
CorrInit ==
    /\ m_rules \in RuleSets
    /\ m_event_history = <<>>
    /\ m_last_fired = <<>>
    /\ m_pending_events = <<>>
    /\ m_pending_mutex = "free"
    /\ events_to_publish = <<>>
    /\ drain_pc = "idle"
    /\ delivered = <<>>
    /\ fired = <<>>
    /\ published = <<>>

\* A component publishes an event; the bus calls the engine's handler, which
\* holds m_state_mutex and m_rules_mutex from lines 63 and 72 to its return
\* and needs m_pending_mutex (line 118) when a rule fires.
Deliver(event) ==
    /\ Len(delivered) < MaxEvents
    /\ m_pending_mutex = "free" \/ handle_event(event).escalations = <<>>
    /\ Handle(event)
    /\ UNCHANGED <<m_rules, m_pending_mutex, events_to_publish, drain_pc,
                   published>>
    /\ UNCHANGED notCorr

\* drain_escalated_events, lines 36-41: inside the block, std::lock_guard
\* takes m_pending_mutex and the buffer is moved out and cleared.
DrainTake ==
    /\ drain_pc = "idle"
    /\ m_pending_mutex = "free"
    /\ m_pending_mutex' = "drain"
    /\ events_to_publish' = m_pending_events
    /\ m_pending_events' = <<>>
    /\ drain_pc' = "unlock"
    /\ UNCHANGED <<m_rules, m_event_history, m_last_fired, delivered, fired,
                   published>>
    /\ UNCHANGED notCorr

\* drain_escalated_events, line 42: the block ends and the lock_guard
\* releases m_pending_mutex before the loop that publishes.
DrainUnlockAtReturn ==
    /\ drain_pc = "unlock"
    /\ drain_pc' = "publish"
    /\ UNCHANGED <<m_rules, m_event_history, m_last_fired, m_pending_events,
                   m_pending_mutex, events_to_publish, delivered, fired,
                   published>>
    /\ UNCHANGED notCorr

DrainUnlock ==
    /\ drain_pc = "unlock"
    /\ m_pending_mutex' = "free"
    /\ drain_pc' = "publish"
    /\ UNCHANGED <<m_rules, m_event_history, m_last_fired, m_pending_events,
                   events_to_publish, delivered, fired, published>>
    /\ UNCHANGED notCorr

\* drain_escalated_events, lines 45-47: one event_bus.publish(event); the bus
\* calls every subscriber, the engine's own handler among them.
DrainPublish ==
    /\ drain_pc = "publish"
    /\ events_to_publish # <<>>
    /\ Handle(Head(events_to_publish))
    /\ published' = Append(published, Head(events_to_publish))
    /\ events_to_publish' = Tail(events_to_publish)
    /\ UNCHANGED <<m_rules, m_pending_mutex, drain_pc>>
    /\ UNCHANGED notCorr

\* drain_escalated_events returns.
DrainReturn ==
    /\ drain_pc = "publish"
    /\ events_to_publish = <<>>
    /\ drain_pc' = "idle"
    /\ UNCHANGED <<m_rules, m_event_history, m_last_fired, m_pending_events,
                   m_pending_mutex, events_to_publish, delivered, fired,
                   published>>
    /\ UNCHANGED notCorr

CorrNext ==
    \/ \E event \in TrackedEvents : Deliver(event)
    \/ DrainTake
    \/ DrainUnlock
    \/ DrainPublish
    \/ DrainReturn

InitCorr ==
    /\ BusIdle
    /\ CorrInit
    /\ DaemonIdle
    /\ DScanIdle
    /\ AuditIdle
    /\ JournalIdle
    /\ WorkerIdle
    /\ ScannerIdle
    /\ DatabaseIdle
    /\ DispatcherIdle
    /\ FanotifyIdle
    /\ CleanupIdle
    /\ DrainsIdle
    /\ ReloadIdle

SpecCorr == InitCorr /\ [][CorrNext]_vars

-----------------------------------------------------------------------------
(* Claims about the correlation engine *)

RuleNamed(name) == CHOOSE r \in Range(m_rules) : r.name = name

\* The delivered events of other components whose variant name is the rule's
\* event_match.
Matching(rule) ==
    {i \in 1..Len(delivered) :
        /\ delivered[i].key = rule.event_match
        /\ delivered[i].source # "correlation_engine"}

\* Some interval [a, a + W] holds at least T of the rule's matching events.
SomeWindowHolds(rule) ==
    \E a \in Times :
        Cardinality({i \in Matching(rule) :
                        /\ a <= delivered[i].timestamp
                        /\ delivered[i].timestamp <= a + rule.window})
            >= rule.threshold

\* C2: a rule with threshold T and window W escalates only if some interval
\* of length W holds T delivered events whose variant name is its event_match.
C2_NoEscalationBelowThreshold ==
    \A k \in 1..Len(fired) : SomeWindowHolds(RuleNamed(fired[k].rule))

\* All of the rule's matching events lie within one window length.
WithinWindow(rule) ==
    \A i, j \in Matching(rule) :
        delivered[i].timestamp - delivered[j].timestamp <= rule.window

\* No drain is running and nothing is left to drain.
Drained ==
    drain_pc = "idle" /\ m_pending_events = <<>> /\ events_to_publish = <<>>

EscalationsPublished(rule) ==
    {k \in 1..Len(published) : published[k].rule_name = rule.name}

\* C9: once exactly T events matching a rule have been delivered to a fresh
\* engine, all within the rule's window, and the buffer has been drained, the
\* bus has seen exactly one escalated event of that rule, with source
\* correlation_engine and the rule's escalated severity.
C9_ThresholdYieldsOneEscalation ==
    \A k \in 1..Len(m_rules) :
        LET rule == m_rules[k] IN
        (Cardinality(Matching(rule)) = rule.threshold /\ WithinWindow(rule) /\ Drained)
            => /\ Cardinality(EscalationsPublished(rule)) = 1
               /\ \A e \in EscalationsPublished(rule) :
                     /\ published[e].source = "correlation_engine"
                     /\ published[e].severity = rule.escalated_severity

\* C10: after a rule fires on an event with timestamp t, it does not fire
\* again on an event whose timestamp is earlier than t plus its window.
C10_Debounce ==
    \A i, j \in 1..Len(fired) :
        (i < j /\ fired[i].rule = fired[j].rule)
            => fired[j].at >= fired[i].at + RuleNamed(fired[i].rule).window

\* C10 witness: a rule fired twice, and between the two firings a further
\* matching event arrived that did not make it fire.
C10_Witness ==
    \E i, j \in 1..Len(fired) :
        /\ i < j
        /\ fired[i].rule = fired[j].rule
        /\ \E m \in (fired[i].index + 1)..(fired[j].index - 1) :
              delivered[m].key = RuleNamed(fired[i].rule).event_match

\* Every escalation the handler has built, in the order built: first those a
\* drain has published, then those a running drain holds, then the buffer.
EscalationsInFlight == published \o events_to_publish \o m_pending_events

\* C27: the handler never publishes: every escalation it builds is appended
\* to the pending buffer and nowhere else, and the bus sees an escalation
\* only when a running drain_escalated_events publishes the head of the
\* vector it moved out of the buffer.
C27_HandlerOnlyBuffers ==
    /\ [](/\ Len(EscalationsInFlight) = Len(fired)
          /\ \A k \in 1..Len(fired) :
                /\ EscalationsInFlight[k].rule_name = fired[k].rule
                /\ EscalationsInFlight[k].timestamp = fired[k].at
                /\ EscalationsInFlight[k].source = "correlation_engine")
    /\ [][published' # published =>
              /\ drain_pc = "publish"
              /\ events_to_publish # <<>>
              /\ published' = Append(published, Head(events_to_publish))]_vars

\* C27 witness: the handler has built two escalations; a drain has published
\* the first on the bus and the second waits in the pending buffer.
C27_Witness ==
    /\ Len(fired) = 2
    /\ Len(published) = 1
    /\ Len(m_pending_events) = 1

\* C28: the engine calls publish with none of its mutexes held: the handler,
\* which takes the state and rules mutexes, publishes nothing, and at every
\* publish of a drain the pending-buffer mutex is free; the drain holds it
\* only inside the block that ends before its publishing loop.
C28_NoLockHeldAtPublish ==
    /\ [][published' # published => m_pending_mutex = "free"]_vars
    /\ [](m_pending_mutex = "drain" <=> drain_pc = "unlock")

\* C28 witness: a drain has published an escalation, and a later drain is
\* inside its locked block holding a further escalation it moved out.
C28_Witness ==
    /\ published # <<>>
    /\ m_pending_mutex = "drain"
    /\ events_to_publish # <<>>

\* The events of other components with the rule's match key that had been
\* delivered when delivery i was handled and are not older than the rule's
\* window at that moment.
InOwnWindow(rule, i) ==
    {j \in 1..i :
        /\ delivered[j].key = rule.event_match
        /\ delivered[j].source # "correlation_engine"
        /\ delivered[j].timestamp >= delivered[i].timestamp - rule.window}

\* The rule had not fired before delivery i.
NotYetFired(rule, i) ==
    \A f \in 1..Len(fired) : fired[f].rule = rule.name => fired[f].index >= i

\* C37: each rule counts the matching events inside its own window, whatever
\* the other rules of the list are: a rule that has not fired yet fires on a
\* matching event exactly when the events inside its own window, that event
\* included, reach its threshold.
C37_CountInOwnWindow ==
    \A i \in 1..Len(delivered) : \A k \in 1..Len(m_rules) :
        LET rule == m_rules[k] IN
        (/\ delivered[i].key = rule.event_match
         /\ delivered[i].source # "correlation_engine"
         /\ NotYetFired(rule, i))
            => ((\E f \in 1..Len(fired) :
                    fired[f].rule = rule.name /\ fired[f].index = i)
                <=> Cardinality(InOwnWindow(rule, i)) >= rule.threshold)

\* The events the engine itself published that came back to its handler.
\* The rules a key's history is trimmed for: those that match the key, and
\* every rule of the list for a key that no rule matches.
ApplicableRules(key) ==
    LET matching == {k \in 1..Len(m_rules) : m_rules[k].event_match = key}
    IN  IF matching = {} THEN 1..Len(m_rules) ELSE matching

LongestWindow(key) ==
    LET ks == ApplicableRules(key)
    IN  m_rules[CHOOSE k \in ks :
                    \A l \in ks : m_rules[l].window <= m_rules[k].window].window

\* The last event of another component delivered with this key.
LastDelivery(key) ==
    LET is == {i \in 1..Len(delivered) :
                  delivered[i].key = key /\ should_track(delivered[i])}
    IN  CHOOSE i \in is : \A j \in is : j <= i

\* C39: for every match key, including keys that no rule matches, the
\* history does not grow with the stream: once an event of the key has been
\* handled, no timestamp older than that event by more than the longest
\* applicable window is kept.
C39_HistoryWithinLongestWindow ==
    \A key \in DOMAIN m_event_history :
        \A n \in 1..Len(m_event_history[key]) :
            m_event_history[key][n] >=
                delivered[LastDelivery(key)].timestamp - LongestWindow(key)

OwnEvents ==
    {i \in 1..Len(delivered) : delivered[i].source = "correlation_engine"}

\* C11: events whose source is correlation_engine are ignored by the engine:
\* no rule fires on one of them, and no history holds more timestamps than
\* other components' events of that type were delivered, so the drained
\* escalations coming back over the bus never escalate further.
C11_OwnEventsIgnored ==
    /\ \A k \in 1..Len(fired) : fired[k].index \notin OwnEvents
    /\ \A key \in DOMAIN m_event_history :
          Len(m_event_history[key]) <=
              Cardinality({i \in 1..Len(delivered) \ OwnEvents :
                              delivered[i].key = key})

\* C11 witness: a rule matches SuspiciousLog with threshold 2, and two
\* escalated events lying within its window have come back to the handler.
C11_Witness ==
    \E k \in 1..Len(m_rules) :
        /\ m_rules[k].event_match = "SuspiciousLog"
        /\ Cardinality(OwnEvents) >= m_rules[k].threshold
        /\ \A i, j \in OwnEvents :
              delivered[i].timestamp - delivered[j].timestamp <= m_rules[k].window

-----------------------------------------------------------------------------
(* Daemon: the run loop, the signal handler and the shutdown sequence *)

\* Bounds: the configurations a reload can load, how many reloads are
\* followed, and where the count of undrained sleeps stops.
MaxConfig == 2
MaxReloads == 2
MaxSleeps == 3

\* DaemonConfig as the daemon reads it here: audit.enabled and the scan section.
Configs == [audit_enabled : BOOLEAN, scan : 1..MaxConfig]

\* The components run() has started when it reaches its loop (lines 192-262):
\* the dispatcher always (run() returns early otherwise); the fanotify monitor,
\* the audit monitor and the distributed scanner unless their start failed.
Started(audit_monitor) ==
    {c \cup {"alert_dispatcher"} :
        c \in SUBSET ({"distributed_scanner", "fanotify_monitor"} \cup
                      (IF audit_monitor THEN {"audit_monitor"} ELSE {}))}

\* run() is at the head of its main loop (lines 264-268).
DaemonInit ==
    /\ daemon_pc = "while"
    /\ m_should_stop = FALSE
    /\ m_should_reload = FALSE
    /\ m_running = TRUE
    /\ m_config \in Configs
    /\ m_audit_monitor \in {a \in BOOLEAN : a => m_config.audit_enabled}
    /\ running \in Started(m_audit_monitor)
    /\ scan_config = m_config.scan
    /\ audit_rules = 0
    /\ stop_order = <<>>
    /\ reloads = 0
    /\ sleeps_since_drain = 0

\* load_config_or_default (line 307): a configuration, or <<>> for a failure.
LoadResults == Configs \cup {<<>>}

\* reload_config, lines 304-337, as a function of what the load returned.
reload_config(loaded) ==
    IF loaded = <<>>
    THEN /\ UNCHANGED <<m_config, scan_config, audit_rules>>
    ELSE /\ m_config' = loaded
         /\ scan_config' = loaded.scan
         /\ audit_rules' = IF m_audit_monitor /\ loaded.audit_enabled
                           THEN reloads + 1 ELSE audit_rules

\* Line 268: while (!m_should_stop.load()).
LoopCheck ==
    /\ daemon_pc = "while"
    /\ daemon_pc' = IF m_should_stop THEN "stop_distributed_scanner" ELSE "sleep"
    /\ UNCHANGED <<m_should_stop, m_should_reload, m_running, m_config,
                   m_audit_monitor, running, scan_config, audit_rules,
                   stop_order, reloads, sleeps_since_drain>>
    /\ UNCHANGED notDaemon

\* Lines 269-279: the body of the loop is sleep_for(1 s) and the reload check;
\* it holds no call of drain_escalated_events(), so a pass only adds a sleep.
LoopBody(n) == IF n < MaxSleeps THEN n + 1 ELSE n

LoopSleep(loaded) ==
    /\ daemon_pc = "sleep"
    /\ sleeps_since_drain' = LoopBody(sleeps_since_drain)
    /\ IF m_should_reload
       THEN /\ m_should_reload' = FALSE
            /\ reload_config(loaded)
            /\ reloads' = reloads + 1
       ELSE UNCHANGED <<m_should_reload, m_config, scan_config, audit_rules,
                        reloads>>
    /\ daemon_pc' = "while"
    /\ UNCHANGED <<m_should_stop, m_running, m_audit_monitor, running,
                   stop_order>>
    /\ UNCHANGED notDaemon

\* One stop() call of the shutdown sequence, lines 284-292.
StopComponent(here, component, present, next) ==
    /\ daemon_pc = here
    /\ running' = IF present THEN running \ {component} ELSE running
    /\ stop_order' = IF present THEN Append(stop_order, component) ELSE stop_order
    /\ daemon_pc' = next

StopDistributedScanner ==
    /\ StopComponent("stop_distributed_scanner", "distributed_scanner", TRUE,
                     "stop_fanotify_monitor")
    /\ UNCHANGED <<m_should_stop, m_should_reload, m_running, m_config,
                   m_audit_monitor, scan_config, audit_rules, reloads,
                   sleeps_since_drain>>
    /\ UNCHANGED notDaemon

StopFanotifyMonitor ==
    /\ StopComponent("stop_fanotify_monitor", "fanotify_monitor", TRUE,
                     "stop_alert_dispatcher")
    /\ UNCHANGED <<m_should_stop, m_should_reload, m_running, m_config,
                   m_audit_monitor, scan_config, audit_rules, reloads,
                   sleeps_since_drain>>
    /\ UNCHANGED notDaemon

StopAlertDispatcher ==
    /\ StopComponent("stop_alert_dispatcher", "alert_dispatcher", TRUE,
                     "stop_audit_monitor")
    /\ UNCHANGED <<m_should_stop, m_should_reload, m_running, m_config,
                   m_audit_monitor, scan_config, audit_rules, reloads,
                   sleeps_since_drain>>
    /\ UNCHANGED notDaemon

\* Lines 290-296: the audit monitor if there is one, then m_running = false
\* and run() returns.
StopAuditMonitor ==
    /\ StopComponent("stop_audit_monitor", "audit_monitor", m_audit_monitor,
                     "returned")
    /\ m_running' = FALSE
    /\ UNCHANGED <<m_should_stop, m_should_reload, m_config, m_audit_monitor,
                   scan_config, audit_rules, reloads, sleeps_since_drain>>
    /\ UNCHANGED notDaemon

\* signal_handler(SIGTERM or SIGINT), lines 27-31: Daemon::stop(), lines 300-302.
SigTerm ==
    /\ daemon_pc # "none"
    /\ m_should_stop' = TRUE
    /\ UNCHANGED <<daemon_pc, m_should_reload, m_running, m_config,
                   m_audit_monitor, running, scan_config, audit_rules,
                   stop_order, reloads, sleeps_since_drain>>
    /\ UNCHANGED notDaemon

\* signal_handler(SIGHUP), lines 32-40: reload_config() is called from the
\* handler itself; m_should_reload is not written.
SigHup(loaded) ==
    /\ daemon_pc # "none"
    /\ reloads < MaxReloads
    /\ reload_config(loaded)
    /\ reloads' = reloads + 1
    /\ UNCHANGED <<daemon_pc, m_should_stop, m_should_reload, m_running,
                   m_audit_monitor, running, stop_order, sleeps_since_drain>>
    /\ UNCHANGED notDaemon

DaemonNext ==
    \/ LoopCheck
    \/ \E loaded \in LoadResults : LoopSleep(loaded)
    \/ StopDistributedScanner
    \/ StopFanotifyMonitor
    \/ StopAlertDispatcher
    \/ StopAuditMonitor
    \/ SigTerm
    \/ \E loaded \in LoadResults : SigHup(loaded)

InitDaemon ==
    /\ BusIdle
    /\ CorrIdle
    /\ DaemonInit
    /\ DScanIdle
    /\ AuditIdle
    /\ JournalIdle
    /\ WorkerIdle
    /\ ScannerIdle
    /\ DatabaseIdle
    /\ DispatcherIdle
    /\ FanotifyIdle
    /\ CleanupIdle
    /\ DrainsIdle
    /\ ReloadIdle

SpecDaemon == InitDaemon /\ [][DaemonNext]_vars

-----------------------------------------------------------------------------
(* Claims about the daemon *)

\* C4: the supervisor's run loop drains the correlation engine between its
\* one-second sleeps, so that every buffered escalated event is published
\* within about a second: the loop never completes two sleeps in a row
\* without a call of drain_escalated_events() in between.
C4_DrainedBetweenSleeps == sleeps_since_drain < 2

\* C29: the signal handler only sets the supervisor's atomic flags: the
\* configuration and what the components were handed from it change only in
\* a pass of the run loop that found the reload flag set.
C29_HandlerOnlySetsFlags ==
    [][(m_config' # m_config \/ scan_config' # scan_config
            \/ audit_rules' # audit_rules)
          => (daemon_pc = "sleep" /\ m_should_reload)]_vars

\* The order in which run() starts the components, lines 191-262.
StartOrder ==
    <<"alert_dispatcher", "fanotify_monitor", "audit_monitor",
      "distributed_scanner">>

\* C30: when run() has returned, the components it had were stopped in
\* exactly the reverse of the order in which it started them.
C30_StoppedInReverseStartOrder ==
    daemon_pc = "returned" =>
        LET present(c) == c # "audit_monitor" \/ m_audit_monitor
            started == SelectSeq(StartOrder, present)
        IN  stop_order = [i \in 1..Len(started) |-> started[Len(started) + 1 - i]]

-----------------------------------------------------------------------------
(* DistributedScanner: the worker's loop and stop() *)

\* Bounds: the size of the collected file list, and the length of a wait in
\* clock ticks (the ten-minute, sixty-second and interval waits all count in
\* the same tick; m_config.interval_hours ranges over 0..MaxWait).
MaxFiles == 2
MaxWait == 2

\* The state right after start() (lines 18-34): the worker thread is at the
\* head of scanner_loop().
DScanInit ==
    /\ ds_running = TRUE
    /\ ds_should_stop = FALSE
    /\ ds_config \in 0..MaxWait
    /\ worker_pc = "while"
    /\ files = 0
    /\ cursor = 0
    /\ wait = NoWait
    /\ stop_pc = "idle"
    /\ stop_waited = 0

\* std::unique_lock lock(m_cv_mutex); m_cv.wait_for(lock, duration, pred):
\* the worker goes on at next when the wait is over.
EnterWait(kind, duration, next) ==
    /\ worker_pc' = "wait_check"
    /\ wait' = [kind |-> kind, next |-> next, remaining |-> duration,
                notified |-> FALSE, reloaded |-> FALSE, stale |-> 0]

\* compute_sleep_duration, lines 163-186, with batch_size 1: the interval
\* spread over the batches.
compute_sleep_duration(total_files, interval) ==
    IF total_files = 0 THEN 0 ELSE interval \div total_files

\* Line 57: while (!m_should_stop.load()).
WorkerLoop ==
    /\ worker_pc = "while"
    /\ worker_pc' = IF ds_should_stop THEN "exited" ELSE "collect"
    /\ UNCHANGED <<ds_running, ds_should_stop, ds_config, files, cursor, wait,
                   stop_pc, stop_waited>>
    /\ UNCHANGED notDScan

\* Lines 59-83: collect_file_list(); an empty list waits ten minutes and
\* starts over, anything else starts the batch loop at cursor 0.
WorkerCollect(n) ==
    /\ worker_pc = "collect"
    /\ files' = n
    /\ cursor' = 0
    /\ IF n = 0 THEN EnterWait("empty", MaxWait, "while")
       ELSE worker_pc' = "batch" /\ wait' = wait
    /\ UNCHANGED <<ds_running, ds_should_stop, ds_config, stop_pc, stop_waited>>
    /\ UNCHANGED notDScan

\* What read_power_state() returns (power/power_monitor.cpp:40-98; AC at 100
\* percent when sysfs cannot be read) and the pacing fields of m_config as
\* the loop reads them under m_config_mutex.
PowerStates == [source : {"ac", "battery"}, battery_percent : {10, 20, 100}]
PacingConfigs == [adaptive_pacing : BOOLEAN, battery_pause_threshold : {20}]

\* Lines 89-97: should_pause.
should_pause_never(power, pacing) == FALSE

should_pause(power, pacing) ==
    /\ pacing.adaptive_pacing
    /\ power.source = "battery"
    /\ power.battery_percent < pacing.battery_pause_threshold

\* Lines 84-119: one pass of the batch loop. The loop ends when the cursor is
\* at the end or m_should_stop is set; a low battery waits sixty seconds;
\* otherwise a batch is processed and the worker sleeps until the next one.
WorkerBatch(power, pacing) ==
    /\ worker_pc = "batch"
    /\ IF ~(cursor < files /\ ~ds_should_stop)
       THEN worker_pc' = "publish" /\ UNCHANGED <<cursor, wait>>
       ELSE IF should_pause(power, pacing)
       THEN EnterWait("pause", MaxWait, "batch") /\ cursor' = cursor
       ELSE /\ cursor' = cursor + 1
            /\ IF compute_sleep_duration(files, ds_config) > 0
               THEN EnterWait("batch", compute_sleep_duration(files, ds_config),
                              "batch")
               ELSE worker_pc' = "batch" /\ wait' = wait
    /\ UNCHANGED <<ds_running, ds_should_stop, ds_config, files, stop_pc,
                   stop_waited>>
    /\ UNCHANGED notDScan

\* Lines 121-133: the ScanCompleted event is published and the worker waits
\* for the next cycle.
WorkerPublish ==
    /\ worker_pc = "publish"
    /\ EnterWait("cycle", ds_config, "while")
    /\ UNCHANGED <<ds_running, ds_should_stop, ds_config, files, cursor,
                   stop_pc, stop_waited>>
    /\ UNCHANGED notDScan

\* wait_for(lock, duration, pred) is  while (!pred()) if (wait_until(lock, t)
\* == timeout) return pred();  The worker, holding m_cv_mutex, evaluates
\* m_should_stop.load(): set, the wait is over; clear, it is going to block.
WaitCheck ==
    /\ worker_pc = "wait_check"
    /\ IF ds_should_stop
       THEN worker_pc' = wait.next /\ wait' = NoWait
       ELSE worker_pc' = "wait_block" /\ wait' = wait
    /\ UNCHANGED <<ds_running, ds_should_stop, ds_config, files, cursor,
                   stop_pc, stop_waited>>
    /\ UNCHANGED notDScan

\* wait_until releases m_cv_mutex and blocks on m_cv; notifications sent
\* before this point are not kept for it.
WaitBlock ==
    /\ worker_pc = "wait_block"
    /\ worker_pc' = "blocked"
    /\ wait' = [wait EXCEPT !.notified = FALSE]
    /\ UNCHANGED <<ds_running, ds_should_stop, ds_config, files, cursor,
                   stop_pc, stop_waited>>
    /\ UNCHANGED notDScan

\* The blocked worker is woken, by a notification or spuriously, and
\* evaluates the predicate again.
WaitWake ==
    /\ worker_pc = "blocked"
    /\ wait.notified
    /\ worker_pc' = "wait_check"
    /\ wait' = [wait EXCEPT !.notified = FALSE]
    /\ UNCHANGED <<ds_running, ds_should_stop, ds_config, files, cursor,
                   stop_pc, stop_waited>>
    /\ UNCHANGED notDScan

WaitSpurious ==
    /\ worker_pc = "blocked"
    /\ ~wait.notified
    /\ worker_pc' = "wait_check"
    /\ UNCHANGED <<ds_running, ds_should_stop, ds_config, files, cursor, wait,
                   stop_pc, stop_waited>>
    /\ UNCHANGED notDScan

\* A clock tick passes while the worker is blocked and nothing has woken it.
WaitTick ==
    /\ worker_pc = "blocked"
    /\ ~wait.notified
    /\ wait.remaining > 0
    /\ wait' = [wait EXCEPT !.remaining = @ - 1,
                            !.stale = IF wait.reloaded THEN @ + 1 ELSE @]
    /\ stop_waited' = IF stop_pc = "join" THEN stop_waited + 1 ELSE stop_waited
    /\ UNCHANGED <<ds_running, ds_should_stop, ds_config, worker_pc, files,
                   cursor, stop_pc>>
    /\ UNCHANGED notDScan

\* The duration has passed: wait_until reports a timeout and wait_for returns.
WaitTimeout ==
    /\ worker_pc = "blocked"
    /\ wait.remaining = 0
    /\ worker_pc' = wait.next
    /\ wait' = NoWait
    /\ UNCHANGED <<ds_running, ds_should_stop, ds_config, files, cursor,
                   stop_pc, stop_waited>>
    /\ UNCHANGED notDScan

\* stop(), lines 37-39: nothing to do unless the scanner runs.
StopCall ==
    /\ stop_pc \in {"idle", "returned"}
    /\ stop_pc' = IF ds_running THEN "store" ELSE "returned"
    /\ UNCHANGED <<ds_running, ds_should_stop, ds_config, worker_pc, files,
                   cursor, wait, stop_waited>>
    /\ UNCHANGED notDScan

\* Line 41: m_should_stop.store(true); m_cv_mutex is not taken.
StopStore ==
    /\ stop_pc = "store"
    /\ ds_should_stop' = TRUE
    /\ stop_pc' = "notify"
    /\ UNCHANGED <<ds_running, ds_config, worker_pc, files, cursor, wait,
                   stop_waited>>
    /\ UNCHANGED notDScan

\* Line 42: m_cv.notify_all() wakes the threads blocked on m_cv at this moment.
StopNotify ==
    /\ stop_pc = "notify"
    /\ wait' = IF worker_pc = "blocked" THEN [wait EXCEPT !.notified = TRUE]
               ELSE wait
    /\ stop_pc' = "join"
    /\ UNCHANGED <<ds_running, ds_should_stop, ds_config, worker_pc, files,
                   cursor, stop_waited>>
    /\ UNCHANGED notDScan

\* Lines 44-48: m_thread.join() returns once scanner_loop() has returned.
StopJoin ==
    /\ stop_pc = "join"
    /\ worker_pc = "exited"
    /\ ds_running' = FALSE
    /\ stop_pc' = "returned"
    /\ UNCHANGED <<ds_should_stop, ds_config, worker_pc, files, cursor, wait,
                   stop_waited>>
    /\ UNCHANGED notDScan

\* update_config, lines 51-54: the new configuration is stored under
\* m_config_mutex; m_cv is not notified.
update_config(interval_hours) ==
    /\ ds_running
    /\ ds_config' = interval_hours
    /\ wait' = IF worker_pc = "blocked" THEN [wait EXCEPT !.reloaded = TRUE]
               ELSE wait
    /\ UNCHANGED <<ds_running, ds_should_stop, worker_pc, files, cursor,
                   stop_pc, stop_waited>>
    /\ UNCHANGED notDScan

DScanNext ==
    \/ WorkerLoop
    \/ \E n \in 0..MaxFiles : WorkerCollect(n)
    \/ \E power \in PowerStates, pacing \in PacingConfigs :
          WorkerBatch(power, pacing)
    \/ WorkerPublish
    \/ WaitCheck
    \/ WaitBlock
    \/ WaitWake
    \/ WaitSpurious
    \/ WaitTick
    \/ WaitTimeout
    \/ StopCall
    \/ StopStore
    \/ StopNotify
    \/ StopJoin
    \/ \E interval_hours \in 0..MaxWait : update_config(interval_hours)

InitDScan ==
    /\ BusIdle
    /\ CorrIdle
    /\ DaemonIdle
    /\ DScanInit
    /\ AuditIdle
    /\ JournalIdle
    /\ WorkerIdle
    /\ ScannerIdle
    /\ DatabaseIdle
    /\ DispatcherIdle
    /\ FanotifyIdle
    /\ CleanupIdle
    /\ DrainsIdle
    /\ ReloadIdle

SpecDScan == InitDScan /\ [][DScanNext]_vars

-----------------------------------------------------------------------------
(* Claims about the distributed scanner *)

\* C5: stop(), called at any point of the worker's cycle, wakes the worker and
\* returns without waiting for the remainder of a sleep: no tick of a wait
\* passes for the blocked worker while stop() sits in join().
C5_StopNeverWaitsOutASleep == stop_waited = 0

\* C12: a configuration reload delivered to the scanner while its worker is
\* sleeping wakes that sleep, so the worker does not go on sleeping out the
\* wait it was in when update_config() was called.
C12_ReloadWakesSleep == wait.stale = 0

\* C25: a ScanCompleted summary of the distributed scanner is published only
\* after every file of the cycle's collected list has been passed to
\* verification: whenever the worker is in the wait it enters right after
\* publishing the summary, the cursor stands at the end of the list.
C25_SummaryAfterEveryFile == wait.kind = "cycle" => cursor = files

\* C33: a pass of the batch loop that reads battery power with a charge
\* below the pause threshold while adaptive pacing is on verifies no file: it
\* leaves the cursor where it is and waits sixty seconds before the next
\* pass; during that wait the cursor and the list stay as they are, and the
\* wait ends at the head of the batch loop, where a stop request ends the
\* cycle without a further batch.
C33_PausedOnLowBattery ==
    /\ [][\A power \in PowerStates, pacing \in PacingConfigs :
             (/\ WorkerBatch(power, pacing)
              /\ cursor < files /\ ~ds_should_stop
              /\ pacing.adaptive_pacing
              /\ power.source = "battery"
              /\ power.battery_percent < pacing.battery_pause_threshold)
                => /\ cursor' = cursor
                   /\ wait'.kind = "pause"
                   /\ wait'.remaining = MaxWait
                   /\ wait'.next = "batch"]_vars
    /\ [][wait.kind = "pause" =>
             /\ cursor' = cursor
             /\ files' = files
             /\ worker_pc' \in {"wait_check", "wait_block", "blocked", "batch"}]_vars
    /\ [][(worker_pc = "batch" /\ ds_should_stop) => cursor' = cursor]_vars

\* C33 witness: the worker is blocked in the sixty-second pause in the middle
\* of a cycle, after one file has been verified and before the next.
C33_Witness ==
    /\ wait.kind = "pause"
    /\ worker_pc = "blocked"
    /\ cursor = 1
    /\ files = 2

-----------------------------------------------------------------------------
(* AuditMonitor: the accumulator map, the timeout sweep and rule evaluation *)

\* Bounds: how many records are processed, and how many milliseconds pass
\* between two looks at the clock.
MaxRecords == 3
TickMs == 120

\* inline constexpr std::chrono::milliseconds INCOMPLETE_EVENT_TIMEOUT{100}
INCOMPLETE_EVENT_TIMEOUT == 100

\* Audit ids (0 is what get_audit_id returns for an invalid event) and the
\* record types process_record tells apart.
AuditIds == {0, 1, 2}
RecordTypes == {"SYSCALL", "EXECVE", "CWD", "PATH", "EOE"}

\* What parse_syscall_record yields: <<>> for a failure, or the record's
\* syscall number, comm and uid.
SyscallRecords ==
    {[syscall |-> 59, comm |-> "sh", uid |-> 0],
     [syscall |-> 2, comm |-> "sh", uid |-> 0],
     [syscall |-> 2, comm |-> "cron", uid |-> 1000]}
ParseResults == {<<r>> : r \in SyscallRecords} \cup {<<>>}

\* The records read from the audit socket: the type, and for a SYSCALL
\* record what parsing it yields.
Records ==
    [type : {"SYSCALL"}, parsed : ParseResults] \cup
    [type : RecordTypes \ {"SYSCALL"}, parsed : {<<>>}]

\* AuditFieldMatch values (exact matches) and AuditRule values: the first
\* rule of a set is disabled, unfiltered, filtered by syscall number or by
\* comm; the second is unfiltered or asks for a missing cwd.
CommIsSh == <<[field_name |-> "comm", pattern |-> "sh", negate |-> FALSE]>>
CwdIsNotTmp == <<[field_name |-> "cwd", pattern |-> "/tmp", negate |-> TRUE]>>
AuditRule(enabled, syscall_filter, field_matches) ==
    [enabled |-> enabled, syscall_filter |-> syscall_filter,
     field_matches |-> field_matches]
AuditRuleSets ==
    {<<a, b>> :
        a \in {AuditRule(FALSE, 0, <<>>), AuditRule(TRUE, 0, <<>>),
               AuditRule(TRUE, 59, <<>>), AuditRule(TRUE, 0, CommIsSh)},
        b \in {AuditRule(TRUE, 0, <<>>), AuditRule(TRUE, 0, CwdIsNotTmp)}}

\* A default-constructed AuditEventAccumulator with audit_id and received set
\* (process_record, lines 150-154); received is kept as the age in ms.
NewAccumulator ==
    [syscall |-> <<>>, execve |-> FALSE, cwd |-> FALSE, paths |-> 0, age |-> 0]

\* is_event_complete, audit_parsing.cpp:247-256.
is_event_complete(event) ==
    IF event.syscall = <<>> THEN FALSE ELSE event.execve \/ event.paths > 0

\* AuditMonitor::should_exclude, lines 359-381.
should_exclude(event) ==
    IF event.syscall = <<>> THEN TRUE
    ELSE \/ event.syscall[1].comm \in au_config.exclude_comms
         \/ event.syscall[1].uid \in au_config.exclude_uids

\* get_field_value, audit_rule.cpp:23-108, for the fields of the model: <<>>
\* is std::nullopt.
get_field_value(event, field_name) ==
    IF event.syscall # <<>> /\ field_name = "comm" THEN <<event.syscall[1].comm>>
    ELSE IF event.cwd /\ field_name = "cwd" THEN <<"/tmp">>
    ELSE <<>>

\* matches_field, audit_rule.cpp:124-172, for AuditMatchType::exact.
matches_field(match, event) ==
    LET field_value == get_field_value(event, match.field_name) IN
    IF field_value = <<>> THEN match.negate
    ELSE LET result == (field_value[1] = match.pattern)
         IN  IF match.negate THEN ~result ELSE result

\* matches_rule, audit_rule.cpp:174-197.
matches_rule(rule, event) ==
    IF ~rule.enabled THEN FALSE
    ELSE IF rule.syscall_filter # 0 /\
            (event.syscall = <<>> \/ event.syscall[1].syscall # rule.syscall_filter)
    THEN FALSE
    ELSE \A k \in 1..Len(rule.field_matches) :
            matches_field(rule.field_matches[k], event)

\* evaluate_event, lines 217-221: the loop publishes for rule k exactly when
\* matches_rule says so, and goes on to the next rule afterwards.
FiresFirstMatchOnly(k, event) ==
    /\ matches_rule(au_rules[k], event)
    /\ \A j \in 1..(k - 1) : ~matches_rule(au_rules[j], event)

Fires(k, event) == matches_rule(au_rules[k], event)

\* evaluate_event, lines 209-223: the rules (by index) an event is published
\* for, in the order of the publish calls.
evaluate_event(event) ==
    IF should_exclude(event) THEN <<>>
    ELSE LET fires(k) == Fires(k, event)
         IN  SelectSeq([k \in 1..Len(au_rules) |-> k], fires)

\* One call of evaluate_event as the history keeps it.
Evaluation(audit_id, via, event) ==
    [audit_id |-> audit_id, via |-> via, event |-> event,
     out |-> evaluate_event(event)]

\* AuditMonitor(event_bus, rules, config) and start(): nothing is pending.
AuditConfigs == {[exclude_comms |-> {"cron"}, exclude_uids |-> {1000}]}

AuditInit ==
    /\ au_rules \in AuditRuleSets
    /\ au_config \in AuditConfigs
    /\ au_pending_events = <<>>
    /\ au_records = 0
    /\ evaluations = <<>>

\* Lines 157-172: the record is parsed into the accumulator.
Accumulate(acc, type, parsed) ==
    IF type = "SYSCALL" THEN (IF parsed = <<>> THEN acc ELSE [acc EXCEPT !.syscall = parsed])
    ELSE IF type = "EXECVE" THEN [acc EXCEPT !.execve = TRUE]
    ELSE IF type = "CWD" THEN [acc EXCEPT !.cwd = TRUE]
    ELSE IF type = "PATH" THEN [acc EXCEPT !.paths = @ + 1]
    ELSE acc

\* std::map::erase(key).
MapErase(m, k) == [x \in DOMAIN m \ {k} |-> m[x]]

\* process_record, lines 138-180.
process_record(type, audit_id, parsed) ==
    /\ au_records < MaxRecords
    /\ au_records' = au_records + 1
    /\ IF audit_id = 0
       THEN UNCHANGED <<au_pending_events, evaluations>>
       ELSE LET acc == Accumulate(MapGet(au_pending_events, audit_id, NewAccumulator),
                                  type, parsed)
            IN  IF type = "EOE" /\ is_event_complete(acc)
                THEN /\ evaluations' = Append(evaluations,
                                              Evaluation(audit_id, "eoe", acc))
                     /\ au_pending_events' = MapErase(au_pending_events, audit_id)
                ELSE /\ evaluations' = evaluations
                     /\ au_pending_events' = MapPut(au_pending_events, audit_id, acc)
    /\ UNCHANGED <<au_rules, au_config>>
    /\ UNCHANGED notAudit

\* Line 192: age > INCOMPLETE_EVENT_TIMEOUT.
TimedOutWithSyscall(acc) ==
    acc.age > INCOMPLETE_EVENT_TIMEOUT /\ acc.syscall # <<>>

TimedOut(acc) == acc.age > INCOMPLETE_EVENT_TIMEOUT

\* The steady clock advances; an accumulator past the timeout stays past it.
AuditTick ==
    /\ \E id \in DOMAIN au_pending_events : ~TimedOut(au_pending_events[id])
    /\ au_pending_events' =
          [id \in DOMAIN au_pending_events |->
              IF TimedOut(au_pending_events[id]) THEN au_pending_events[id]
              ELSE [au_pending_events[id] EXCEPT !.age = @ + TickMs]]
    /\ UNCHANGED <<au_rules, au_config, au_records, evaluations>>
    /\ UNCHANGED notAudit

\* flush_pending_events, lines 182-207: in key order, every accumulator past
\* the timeout is evaluated if it has a syscall record, and erased.
AuditIdOrder == <<1, 2>>

flush_pending_events ==
    LET expired(id) == id \in DOMAIN au_pending_events /\
                       TimedOut(au_pending_events[id])
        evaluated(id) == expired(id) /\ au_pending_events[id].syscall # <<>>
        ids == SelectSeq(AuditIdOrder, evaluated)
    IN  /\ \E id \in DOMAIN au_pending_events : expired(id)
        /\ evaluations' = evaluations \o
              [k \in 1..Len(ids) |->
                  Evaluation(ids[k], "timeout", au_pending_events[ids[k]])]
        /\ au_pending_events' =
              [id \in {x \in DOMAIN au_pending_events : ~expired(x)} |->
                  au_pending_events[id]]
        /\ UNCHANGED <<au_rules, au_config, au_records>>
        /\ UNCHANGED notAudit

AuditNext ==
    \/ \E record \in Records, audit_id \in AuditIds :
          process_record(record.type, audit_id, record.parsed)
    \/ AuditTick
    \/ flush_pending_events

InitAudit ==
    /\ BusIdle
    /\ CorrIdle
    /\ DaemonIdle
    /\ DScanIdle
    /\ AuditInit
    /\ JournalIdle
    /\ WorkerIdle
    /\ ScannerIdle
    /\ DatabaseIdle
    /\ DispatcherIdle
    /\ FanotifyIdle
    /\ CleanupIdle
    /\ DrainsIdle
    /\ ReloadIdle

SpecAudit == InitAudit /\ [][AuditNext]_vars

\* monitor_loop, lines 108-136: every pass of the loop calls
\* flush_pending_events() and sleeps 10 ms, so the clock keeps advancing and
\* a sweep that has something to remove is eventually run.
SpecAuditLive ==
    /\ InitAudit
    /\ [][AuditNext]_vars
    /\ WF_vars(AuditTick)
    /\ WF_vars(flush_pending_events)

-----------------------------------------------------------------------------
(* Claims about the audit monitor *)

\* The calls of evaluate_event made for one audit id.
EvaluationsOf(audit_id) ==
    {k \in 1..Len(evaluations) : evaluations[k].audit_id = audit_id}

\* C3: for every audit serial, over any sequence of records and timeout
\* sweeps, the accumulator of that serial is evaluated against the rules at
\* most once, on end-of-event or on timeout, never both and never twice.
C3_EvaluatedAtMostOncePerSerial ==
    \A audit_id \in AuditIds : Cardinality(EvaluationsOf(audit_id)) <= 1

\* A rule matches an event: its syscall filter, if any, is the event's syscall
\* number, and every one of its field matches holds.
RuleMatches(rule, event) ==
    /\ rule.syscall_filter # 0 =>
          (event.syscall # <<>> /\ event.syscall[1].syscall = rule.syscall_filter)
    /\ \A k \in 1..Len(rule.field_matches) :
          matches_field(rule.field_matches[k], event)

\* C8: whenever a non-excluded accumulator is evaluated, one event is
\* published for each enabled rule that matches it, in rule order: every
\* matching rule fires, not only the first.
C8_AllMatchingRulesFire ==
    \A k \in 1..Len(evaluations) :
        LET e == evaluations[k] IN
        ~should_exclude(e.event) =>
            /\ \A i, j \in 1..Len(e.out) : i < j => e.out[i] < e.out[j]
            /\ Range(e.out) =
                  {r \in 1..Len(au_rules) :
                      au_rules[r].enabled /\ RuleMatches(au_rules[r], e.event)}

\* C8 witness: a non-excluded accumulator was evaluated and both rules
\* published an event for it, the first rule first.
C8_Witness ==
    \E k \in 1..Len(evaluations) :
        /\ ~should_exclude(evaluations[k].event)
        /\ evaluations[k].out = <<1, 2>>

\* C31: when an end-of-event record has been processed for a serial, the
\* accumulator of that serial is no longer in the pending map, whether or
\* not it was complete enough to be evaluated.
C31_EoeDropsAccumulator ==
    [][\A audit_id \in AuditIds \ {0} :
          process_record("EOE", audit_id, <<>>)
              => audit_id \notin DOMAIN au_pending_events']_vars

\* The evaluations a step has added for one audit id on timeout.
SweptEvaluations(audit_id) ==
    {k \in (Len(evaluations) + 1)..Len(evaluations') :
        evaluations'[k].audit_id = audit_id /\ evaluations'[k].via = "timeout"}

\* C32: a sweep removes every pending accumulator older than the timeout,
\* after evaluating it once if and only if it carries a syscall record, and
\* leaves the younger ones; and once records stop arriving the pending map
\* becomes empty and stays empty.
C32_SweepEmptiesPending ==
    /\ [][flush_pending_events =>
             \A audit_id \in DOMAIN au_pending_events :
                LET acc == au_pending_events[audit_id] IN
                IF acc.age > INCOMPLETE_EVENT_TIMEOUT
                THEN /\ audit_id \notin DOMAIN au_pending_events'
                     /\ Cardinality(SweptEvaluations(audit_id)) =
                           (IF acc.syscall # <<>> THEN 1 ELSE 0)
                ELSE /\ audit_id \in DOMAIN au_pending_events'
                     /\ au_pending_events'[audit_id] = acc
                     /\ SweptEvaluations(audit_id) = {}]_vars
    /\ <>[](au_pending_events = <<>>)

\* C32 witness: a sweep has evaluated an accumulator on timeout, and of the
\* accumulators now pending one is past the timeout without a syscall record
\* and one is younger than the timeout.
C32_Witness ==
    /\ \E k \in 1..Len(evaluations) : evaluations[k].via = "timeout"
    /\ \E a, b \in DOMAIN au_pending_events :
          /\ au_pending_events[a].age > INCOMPLETE_EVENT_TIMEOUT
          /\ au_pending_events[a].syscall = <<>>
          /\ au_pending_events[b].age <= INCOMPLETE_EVENT_TIMEOUT

-----------------------------------------------------------------------------
(* JournalMonitor: exclusion, priority filter and rule evaluation *)

\* Bounds: how many journal entries are read, and the largest syslog priority
\* of an entry (0 = emerg).
MaxEntries == 2
MaxPriority == 7

\* A std::string is kept as its sequence of words, so that exact, contains and
\* starts_with differ: "" is <<>>, and a pattern is one word.
Messages == {<<"failed", "login">>, <<"login", "failed">>, <<"login">>}
Identifiers == {<<"sshd">>, <<"cron">>, <<"vigilant-canined">>}

\* JournalEntry values as extract_fields returns them.
JournalEntries ==
    [message : Messages, priority : {3, MaxPriority},
     syslog_identifier : Identifiers, systemd_unit : {<<"ssh.service">>}]

\* JournalFieldMatch and JournalRule values.
JournalFieldMatch(field_name, pattern, match_type, negate) ==
    [field_name |-> field_name, pattern |-> pattern, match_type |-> match_type,
     negate |-> negate]
JournalFieldMatches ==
    {<<>>,
     <<JournalFieldMatch("MESSAGE", "failed", "contains", FALSE)>>,
     <<JournalFieldMatch("MESSAGE", "login", "starts_with", FALSE),
       JournalFieldMatch("SYSLOG_IDENTIFIER", "sshd", "exact", FALSE)>>,
     <<JournalFieldMatch("_HOSTNAME", "login", "exact", TRUE)>>}
JournalRules == [enabled : BOOLEAN, field_matches : JournalFieldMatches]
JournalRuleSets ==
    {<<a, b>> : a \in JournalRules, b \in {r \in JournalRules : r.enabled}}

\* JournalMonitorConfig, journal_monitor.h:28-33.
JournalConfigs ==
    {[max_priority |-> 6, exclude_units |-> {},
      exclude_identifiers |-> {<<"cron">>}]}

\* matches_field, journal_rule.cpp:14-61 (the regex type is left out); a field
\* the entry does not carry is the empty string.
journal_matches_field(match, entry) ==
    LET field_value ==
            IF match.field_name = "MESSAGE" THEN entry.message
            ELSE IF match.field_name = "SYSLOG_IDENTIFIER" THEN entry.syslog_identifier
            ELSE IF match.field_name = "_SYSTEMD_UNIT" THEN entry.systemd_unit
            ELSE <<>>
        result ==
            IF match.match_type = "exact" THEN field_value = <<match.pattern>>
            ELSE IF match.match_type = "contains"
            THEN \E i \in 1..Len(field_value) : field_value[i] = match.pattern
            ELSE field_value # <<>> /\ field_value[1] = match.pattern
    IN  IF match.negate THEN ~result ELSE result

\* matches_rule, journal_rule.cpp:63-72.
journal_matches_rule(rule, entry) ==
    IF ~rule.enabled THEN FALSE
    ELSE \A k \in 1..Len(rule.field_matches) :
            journal_matches_field(rule.field_matches[k], entry)

\* JournalMonitor::should_exclude, journal_monitor.cpp:309-330.
journal_should_exclude(entry) ==
    \/ entry.syslog_identifier = <<"vigilant-canined">>
    \/ entry.systemd_unit \in jr_config.exclude_units
    \/ entry.syslog_identifier \in jr_config.exclude_identifiers

\* evaluate_entry, lines 191-197: the loop publishes for the rule that
\* matches and returns, so rule k publishes only if no earlier rule matched.
PublishesEveryMatch(k, entry) == journal_matches_rule(jr_rules[k], entry)

PublishesFor(k, entry) ==
    /\ journal_matches_rule(jr_rules[k], entry)
    /\ \A j \in 1..(k - 1) : ~journal_matches_rule(jr_rules[j], entry)

\* evaluate_entry, lines 187-198: the rules (by index) an event is published
\* for, in the order of the publish calls.
evaluate_entry(entry) ==
    LET publishes(k) == PublishesFor(k, entry)
    IN  SelectSeq([k \in 1..Len(jr_rules) |-> k], publishes)

\* JournalMonitor(event_bus, rules, config) and start().
JournalInit ==
    /\ jr_rules \in JournalRuleSets
    /\ jr_config \in JournalConfigs
    /\ jr_entries = 0
    /\ jr_last = NoEntry

\* monitor_loop, lines 108-122: one entry is read, dropped if excluded or of
\* too low a priority, and evaluated otherwise.
ReadEntry(entry) ==
    /\ jr_entries < MaxEntries
    /\ jr_entries' = jr_entries + 1
    /\ jr_last' =
          IF journal_should_exclude(entry) \/ entry.priority > jr_config.max_priority
          THEN [entry |-> entry, reached |-> FALSE, out |-> <<>>]
          ELSE [entry |-> entry, reached |-> TRUE, out |-> evaluate_entry(entry)]
    /\ UNCHANGED <<jr_rules, jr_config>>
    /\ UNCHANGED notJournal

\* update_rules, lines 86-90: the rules are replaced under m_rules_mutex (the
\* history restarts: it speaks of the rules an entry was evaluated with).
journal_update_rules(rules) ==
    /\ jr_rules # rules
    /\ jr_rules' = rules
    /\ jr_last' = NoEntry
    /\ UNCHANGED <<jr_config, jr_entries>>
    /\ UNCHANGED notJournal

JournalNext ==
    \/ \E entry \in JournalEntries : ReadEntry(entry)
    \/ \E rules \in JournalRuleSets : journal_update_rules(rules)

InitJournal ==
    /\ BusIdle
    /\ CorrIdle
    /\ DaemonIdle
    /\ DScanIdle
    /\ AuditIdle
    /\ JournalInit
    /\ WorkerIdle
    /\ ScannerIdle
    /\ DatabaseIdle
    /\ DispatcherIdle
    /\ FanotifyIdle
    /\ CleanupIdle
    /\ DrainsIdle
    /\ ReloadIdle

SpecJournal == InitJournal /\ [][JournalNext]_vars

-----------------------------------------------------------------------------
(* Claims about the journal matcher *)

\* The rules, by index, that match an entry: enabled, and every field match
\* holds.
MatchingRules(entry) ==
    {k \in 1..Len(jr_rules) :
        /\ jr_rules[k].enabled
        /\ \A i \in 1..Len(jr_rules[k].field_matches) :
              journal_matches_field(jr_rules[k].field_matches[i], entry)}

\* C7: for every ordered rule set and every entry that reaches rule
\* evaluation, exactly one event is published, for the first rule in list
\* order that matches, if any rule matches, and no event otherwise.
C7_FirstMatchingRuleOnly ==
    jr_last.reached =>
        LET matching == MatchingRules(jr_last.entry) IN
        IF matching = {} THEN jr_last.out = <<>>
        ELSE jr_last.out =
                <<CHOOSE k \in matching : \A j \in matching : k <= j>>

\* C7 witness: an entry reached evaluation, both rules match it, and the one
\* event published is the first rule's.
C7_Witness ==
    /\ jr_last.reached
    /\ MatchingRules(jr_last.entry) = {1, 2}
    /\ jr_last.out = <<1>>

-----------------------------------------------------------------------------
(* start(), stop() and the worker loop of the components that own a thread *)

\* Bounds: how many start() and stop() calls are followed, and where the
\* count of events published after a stop() stops.
MaxCalls == 4
MaxLate == 2

\* FanotifyMonitor (monitor/fanotify_monitor.cpp:116-145), JournalMonitor
\* (journal/journal_monitor.cpp:52-81), AuditMonitor
\* (audit/audit_monitor.cpp:65-96), DistributedScanner
\* (scanner/distributed_scanner.cpp:18-49).
Components ==
    {"fanotify_monitor", "journal_monitor", "audit_monitor", "distributed_scanner"}

\* start() of the three monitors refuses without a successful initialize();
\* the scanner has nothing to initialize.
NeedsInitialize(component) == component # "distributed_scanner"

\* The worker loop that can leave by itself: FanotifyMonitor::monitor_loop
\* breaks on a poll or read error (lines 159-181); the others only leave when
\* m_should_stop is set.
CanBreak(component) == component = "fanotify_monitor"

\* The component is constructed; initialize() has succeeded or not.
WorkerInit ==
    /\ wk_component \in Components
    /\ wk_initialized \in {i \in BOOLEAN : ~NeedsInitialize(wk_component) => i}
    /\ wk_running = FALSE
    /\ wk_should_stop = FALSE
    /\ wk_thread = "none"
    /\ wk_worker_pc = "none"
    /\ wk_ctl = "idle"
    /\ wk_calls = 0
    /\ wk_last_call = "none"
    /\ wk_late = 0

\* start(): refused while m_running or without initialization; otherwise
\* m_should_stop = false, m_running = true and the thread is created (the
\* scanner catches a failed thread creation and resets m_running).
WorkerStart(spawned) ==
    /\ wk_ctl = "idle"
    /\ wk_calls < MaxCalls
    /\ wk_calls' = wk_calls + 1
    /\ IF wk_running \/ (NeedsInitialize(wk_component) /\ ~wk_initialized)
       THEN /\ wk_last_call' = "start_refused"
            /\ UNCHANGED <<wk_running, wk_should_stop, wk_thread, wk_worker_pc,
                           wk_late>>
       ELSE IF wk_component = "distributed_scanner" /\ ~spawned
       THEN /\ wk_should_stop' = FALSE
            /\ wk_running' = FALSE
            /\ wk_last_call' = "start_refused"
            /\ UNCHANGED <<wk_thread, wk_worker_pc, wk_late>>
       ELSE /\ wk_should_stop' = FALSE
            /\ wk_running' = TRUE
            /\ wk_thread' = "running"
            /\ wk_worker_pc' = "while"
            /\ wk_last_call' = "start"
            /\ wk_late' = 0
    /\ UNCHANGED <<wk_component, wk_initialized, wk_ctl>>
    /\ UNCHANGED notWorker

\* The head of the worker loop: while (!m_should_stop.load()).
WorkerWhile ==
    /\ wk_thread = "running"
    /\ wk_worker_pc = "while"
    /\ IF wk_should_stop
       THEN wk_thread' = "exited" /\ wk_worker_pc' = "none"
       ELSE wk_thread' = wk_thread /\ wk_worker_pc' = "body"
    /\ UNCHANGED <<wk_component, wk_initialized, wk_running, wk_should_stop,
                   wk_ctl, wk_calls, wk_last_call, wk_late>>
    /\ UNCHANGED notWorker

\* Whether an event published now comes after a stop() that has returned.
AfterStop == wk_ctl = "idle" /\ wk_last_call \in {"stop", "stop_noop"}

\* One pass of the loop body: nothing to report, an event published on the
\* bus, or an error that leaves the loop.
WorkerBody(outcome) ==
    /\ wk_thread = "running"
    /\ wk_worker_pc = "body"
    /\ outcome = "break" => CanBreak(wk_component)
    /\ IF outcome = "break"
       THEN wk_thread' = "exited" /\ wk_worker_pc' = "none"
       ELSE wk_thread' = wk_thread /\ wk_worker_pc' = "while"
    /\ wk_late' = IF outcome = "publish" /\ AfterStop /\ wk_late < MaxLate
                  THEN wk_late + 1 ELSE wk_late
    /\ UNCHANGED <<wk_component, wk_initialized, wk_running, wk_should_stop,
                   wk_ctl, wk_calls, wk_last_call>>
    /\ UNCHANGED notWorker

\* stop(), first lines: nothing to do unless m_running.
WorkerStopCall ==
    /\ wk_ctl = "idle"
    /\ wk_calls < MaxCalls
    /\ wk_calls' = wk_calls + 1
    /\ IF wk_running
       THEN wk_ctl' = "store" /\ wk_last_call' = wk_last_call
       ELSE wk_ctl' = "idle" /\ wk_last_call' = "stop_noop"
    /\ UNCHANGED <<wk_component, wk_initialized, wk_running, wk_should_stop,
                   wk_thread, wk_worker_pc, wk_late>>
    /\ UNCHANGED notWorker

\* m_should_stop.store(true) (the scanner also notifies m_cv).
WorkerStopStore ==
    /\ wk_ctl = "store"
    /\ wk_should_stop' = TRUE
    /\ wk_ctl' = "join"
    /\ UNCHANGED <<wk_component, wk_initialized, wk_running, wk_thread,
                   wk_worker_pc, wk_calls, wk_last_call, wk_late>>
    /\ UNCHANGED notWorker

\* m_thread.join() returns once the thread function has returned.
JoinReturnsAtOnce(thread) == TRUE

JoinReturns(thread) == thread = "exited"

\* if (joinable()) join(); m_running.store(false); stop() returns.
WorkerStopJoin ==
    /\ wk_ctl = "join"
    /\ wk_thread \in {"running", "exited"} => JoinReturns(wk_thread)
    /\ wk_thread' = IF wk_thread = "exited" THEN "joined" ELSE wk_thread
    /\ wk_running' = FALSE
    /\ wk_ctl' = "idle"
    /\ wk_last_call' = "stop"
    /\ wk_late' = 0
    /\ UNCHANGED <<wk_component, wk_initialized, wk_should_stop, wk_worker_pc,
                   wk_calls>>
    /\ UNCHANGED notWorker

WorkerNext ==
    \/ \E spawned \in BOOLEAN : WorkerStart(spawned)
    \/ WorkerWhile
    \/ \E outcome \in {"nothing", "publish", "break"} : WorkerBody(outcome)
    \/ WorkerStopCall
    \/ WorkerStopStore
    \/ WorkerStopJoin

InitWorker ==
    /\ BusIdle
    /\ CorrIdle
    /\ DaemonIdle
    /\ DScanIdle
    /\ AuditIdle
    /\ JournalIdle
    /\ WorkerInit
    /\ ScannerIdle
    /\ DatabaseIdle
    /\ DispatcherIdle
    /\ FanotifyIdle
    /\ CleanupIdle
    /\ DrainsIdle
    /\ ReloadIdle

SpecWorker == InitWorker /\ [][WorkerNext]_vars

-----------------------------------------------------------------------------
(* Claims about start() and stop() *)

\* is_running() returns m_running.
is_running == wk_running

\* C13: for each component that owns a worker thread, once stop() has
\* returned the worker thread has terminated, is_running() is false and the
\* component publishes no further event; a stop() that finds the component
\* not running (stopped already, or never started) returns at once and
\* leaves it so.
C13_StopJoinsWorker ==
    AfterStop =>
        /\ wk_thread \in {"none", "joined"}
        /\ ~is_running
        /\ wk_late = 0

\* C13 witness: a started component was stopped and its worker joined, and a
\* further stop() has returned as a no-op.
C13_Witness ==
    /\ wk_ctl = "idle"
    /\ wk_last_call = "stop_noop"
    /\ wk_thread = "joined"

(***************************************************************************)
(* Scanner and BaselineStore (src/scanner/scanner.cpp,                     *)
(* src/storage/baseline_store.cpp, src/storage/schema.h).                  *)
(***************************************************************************)

MaxChanges == 2

\* File contents and their length in bytes (st_size).
Contents == {"one", "three"}

Size(content) == IF content = "three" THEN 5 ELSE 3

\* hash_bytes: deterministic, and distinct contents give distinct digests.
hash_bytes(content) == <<"blake3", content>>

\* lstat() of a regular file: size, mode, owner and mtime in nanoseconds.
get_file_metadata(file) ==
    [size |-> Size(file.content), mode |-> "0644", uid |-> 0, gid |-> 0,
     mtime_ns |-> file.mtime_ns]

\* hash_file reads the bytes the path holds when it is opened.
hash_file(file) == hash_bytes(file.content)

\* WHERE path = ? AND (deployment IS ? OR (deployment IS NULL AND ? IS NULL)):
\* "none" is the NULL deployment, and IS treats NULL as equal to NULL.
Matches(row, path, deployment) == row.path = path /\ row.deployment = deployment

\* UNIQUE(path, deployment) as SQLite enforces it: a NULL never conflicts
\* with anything, not even with another NULL.
UniqueViolated(store, baseline) ==
    /\ baseline.deployment # "none"
    /\ \E row \in store : Matches(row, baseline.path, baseline.deployment)

\* INSERT INTO baselines: the new row takes the next AUTOINCREMENT id; the
\* statement fails, leaving the table alone, when the constraint is violated.
insert(store, rowid, baseline) ==
    IF UniqueViolated(store, baseline)
    THEN [ok |-> FALSE, store |-> store, rowid |-> rowid]
    ELSE [ok |-> TRUE,
          store |-> store \cup {[baseline EXCEPT !.id = rowid + 1]},
          rowid |-> rowid + 1]

\* UPDATE baselines SET ... WHERE ...: every matching row takes the new
\* hash, metadata and source; id, path and deployment stay.
update(store, baseline) ==
    {IF Matches(row, baseline.path, baseline.deployment)
     THEN [baseline EXCEPT !.id = row.id]
     ELSE row : row \in store}

\* SELECT ... WHERE ...: the first row the statement steps to (the lowest
\* id), as a set of at most one row.
find_by_path(store, path, deployment) ==
    LET found == {row \in store : Matches(row, path, deployment)}
    IN  {row \in found : \A other \in found : row.id <= other.id}

\* DELETE FROM baselines WHERE ...
delete_by_path(store, path, deployment) ==
    {row \in store : ~Matches(row, path, deployment)}

\* The Baseline that scan_file and scan_user_paths fill in (lines 100-110,
\* 440-450) from the metadata and the hash they read.
MakeBaseline(path, metadata, hash, source, deployment) ==
    [id |-> 0, path |-> path, hash_value |-> hash, size |-> metadata.size,
     mode |-> metadata.mode, uid |-> metadata.uid, gid |-> metadata.gid,
     mtime_ns |-> metadata.mtime_ns, source |-> source,
     deployment |-> deployment]

\* scan_file's comparison (lines 115-119): hash, size, mode, uid and gid.
SameBaseline(old, new) ==
    /\ old.hash_value = new.hash_value
    /\ old.size = new.size
    /\ old.mode = new.mode
    /\ old.uid = new.uid
    /\ old.gid = new.gid

\* verify_file (lines 217-297) on a file the iterator met: "new" without a
\* baseline; otherwise the hash is recomputed only when size or mtime
\* differ from the baseline, and a different hash is "modified".  The store
\* is only read.
verify_file(path, fs, store, deployment) ==
    LET existing == find_by_path(store, path, deployment)
    IN  IF existing = {}
        THEN <<[path |-> path, change_type |-> "new"]>>
        ELSE LET baseline == CHOOSE row \in existing : TRUE
                 metadata == get_file_metadata(fs[path])
                 needs_hash_check == \/ metadata.size # baseline.size
                                     \/ metadata.mtime_ns # baseline.mtime_ns
             IN  IF needs_hash_check /\ hash_file(fs[path]) # baseline.hash_value
                 THEN <<[path |-> path, change_type |-> "modified"]>>
                 ELSE <<>>

\* verify_baselines (lines 299-354): walks the directory, not the baselines
\* table, and collects what verify_file returns for each regular file.
RECURSIVE verify_baselines(_, _, _, _)
verify_baselines(entries, fs, store, deployment) ==
    IF entries = <<>>
    THEN <<>>
    ELSE LET path == Head(entries)
             rest == verify_baselines(Tail(entries), fs, store, deployment)
         IN  IF fs[path].present
             THEN verify_file(path, fs, store, deployment) \o rest
             ELSE rest

\* A Scanner is constructed over a tree and a store with baselines from an
\* earlier run.
ScannerInit ==
    /\ sc_fs \in [Paths -> {NoFile, [present |-> TRUE, content |-> "one", mtime_ns |-> 0]}]
    /\ sc_changes = 0
    /\ m_store = {}
    /\ sc_rowid = 0
    /\ sc_deployment \in Deployments
    /\ sc_run = NoRun
    /\ sc_runs = <<>>
    /\ sc_write = NoWrite
    /\ sc_verified = NoVerify

\* Another process creates or overwrites a file; its mtime moves forward.
WriteFile(path, content) ==
    /\ sc_changes < MaxChanges
    /\ ~sc_fs[path].present \/ sc_fs[path].content # content
    /\ sc_changes' = sc_changes + 1
    /\ sc_fs' = [sc_fs EXCEPT ![path] = [present |-> TRUE, content |-> content,
                                         mtime_ns |-> sc_changes + 1]]
    /\ sc_runs' = <<>>
    /\ sc_verified' = NoVerify
    /\ UNCHANGED <<m_store, sc_rowid, sc_deployment, sc_run, sc_write>>
    /\ UNCHANGED notScanner

\* Another process removes a file.
RemoveFile(path) ==
    /\ sc_changes < MaxChanges
    /\ sc_fs[path].present
    /\ sc_changes' = sc_changes + 1
    /\ sc_fs' = [sc_fs EXCEPT ![path] = NoFile]
    /\ sc_runs' = <<>>
    /\ sc_verified' = NoVerify
    /\ UNCHANGED <<m_store, sc_rowid, sc_deployment, sc_run, sc_write>>
    /\ UNCHANGED notScanner

\* scan_directory (lines 140-159) or scan_user_paths (lines 356-389) opens
\* the directory iterator with zeroed statistics.
ScanBegin(kind) ==
    /\ sc_run.kind = "idle"
    /\ sc_run' = [NoRun EXCEPT !.kind = kind, !.todo = PathOrder, !.started = sc_changes]
    /\ sc_write' = NoWrite
    /\ sc_verified' = NoVerify
    /\ UNCHANGED <<sc_fs, sc_changes, m_store, sc_rowid, sc_deployment, sc_runs>>
    /\ UNCHANGED notScanner

\* The iterator yields the next regular file and the scanner stats it
\* (lines 161-178 and 68-73, or 391-422); a path with no file is no entry.
ScanEntry ==
    /\ sc_run.kind # "idle"
    /\ sc_run.pc = "next"
    /\ sc_run.todo # <<>>
    /\ LET path == Head(sc_run.todo)
       IN  sc_run' = IF sc_fs[path].present
                     THEN [sc_run EXCEPT !.todo = Tail(@), !.path = path, !.pc = "hash",
                                         !.metadata = get_file_metadata(sc_fs[path])]
                     ELSE [sc_run EXCEPT !.todo = Tail(@)]
    /\ UNCHANGED <<sc_fs, sc_changes, m_store, sc_rowid, sc_deployment, sc_runs, sc_write, sc_verified>>
    /\ UNCHANGED notScanner

\* hash_file (lines 76-79, 425-429) opens the path and hashes what it holds
\* now; a file that is gone is an error and the entry is dropped.
ScanHash ==
    /\ sc_run.pc = "hash"
    /\ LET file == sc_fs[sc_run.path]
       IN  sc_run' = IF file.present
                     THEN [sc_run EXCEPT !.hash = hash_file(file), !.hashed = file,
                                         !.pc = "store"]
                     ELSE [sc_run EXCEPT !.stats.errors = @ + 1, !.pc = "next",
                                         !.path = "", !.metadata = NoMetadata]
    /\ UNCHANGED <<sc_fs, sc_changes, m_store, sc_rowid, sc_deployment, sc_runs, sc_write, sc_verified>>
    /\ UNCHANGED notScanner

\* scan_user_paths (lines 452-470) updates whenever a baseline exists,
\* without comparing it.
ScanStoreUser(existing, baseline) ==
    IF existing # {}
    THEN [store |-> update(m_store, baseline), rowid |-> sc_rowid, ok |-> TRUE,
          wrote |-> TRUE, counter |-> "files_updated"]
    ELSE LET inserted == insert(m_store, sc_rowid, baseline)
         IN  [store |-> inserted.store, rowid |-> inserted.rowid, ok |-> inserted.ok,
              wrote |-> inserted.ok, counter |-> "files_added"]

\* scan_file (lines 112-137): unchanged without a write when the baseline
\* has the same hash, size, mode, uid and gid; update when it differs;
\* insert when there is none.
ScanStoreDirectory(existing, baseline) ==
    IF existing # {} /\ SameBaseline(CHOOSE row \in existing : TRUE, baseline)
    THEN [store |-> m_store, rowid |-> sc_rowid, ok |-> TRUE,
          wrote |-> FALSE, counter |-> "files_unchanged"]
    ELSE ScanStoreUser(existing, baseline)

\* The rest of the entry: find_by_path, then update or insert, then the
\* statistics (lines 92-137 and 180-196, or 431-470).
ScanStore ==
    /\ sc_run.pc = "store"
    /\ LET source == IF sc_run.kind = "user" THEN "user:alice" ELSE "scan"
           baseline == MakeBaseline(sc_run.path, sc_run.metadata, sc_run.hash,
                                    source, sc_deployment)
           existing == find_by_path(m_store, sc_run.path, sc_deployment)
           result == IF sc_run.kind = "user"
                     THEN ScanStoreUser(existing, baseline)
                     ELSE ScanStoreDirectory(existing, baseline)
           stats == IF result.ok
                    THEN [sc_run.stats EXCEPT ![result.counter] = @ + 1,
                                              !.files_scanned = @ + 1]
                    ELSE [sc_run.stats EXCEPT !.errors = @ + 1]
       IN  /\ m_store' = result.store
           /\ sc_rowid' = result.rowid
           /\ sc_write' = IF result.wrote
                          THEN [written |-> TRUE, row |-> baseline, hashed |-> sc_run.hashed]
                          ELSE sc_write
           /\ sc_run' = [sc_run EXCEPT !.stats = stats, !.pc = "next", !.path = "",
                                       !.metadata = NoMetadata, !.hash = <<>>,
                                       !.hashed = NoFile,
                                       !.writes = IF result.wrote THEN @ + 1 ELSE @]
    /\ UNCHANGED <<sc_fs, sc_changes, sc_deployment, sc_runs, sc_verified>>
    /\ UNCHANGED notScanner

\* What a scan publishes when its loop ends: scan_directory publishes one
\* ScanCompletedEvent at info with files_scanned and files_added (lines
\* 204-212); scan_user_paths returns its statistics and publishes nothing
\* (line 479).
ScanCompleted(kind, stats) ==
    IF kind = "directory"
    THEN <<[variant |-> "ScanCompleted", severity |-> info, source |-> "scanner",
            files_scanned |-> stats.files_scanned,
            changes_detected |-> stats.files_added]>>
    ELSE <<>>

\* The iterator is exhausted and the scan publishes its summary and returns
\* its statistics (lines 204-214, 479).
ScanEnd ==
    /\ sc_run.kind # "idle"
    /\ sc_run.pc = "next"
    /\ sc_run.todo = <<>>
    /\ LET clean == sc_run.started = sc_changes
           finished == [kind |-> sc_run.kind, stats |-> sc_run.stats,
                        writes |-> sc_run.writes, clean |-> clean,
                        published |-> ScanCompleted(sc_run.kind, sc_run.stats)]
       IN  sc_runs' = IF ~clean \/ sc_runs = <<>> THEN <<finished>>
                      ELSE <<sc_runs[Len(sc_runs)], finished>>
    /\ sc_run' = NoRun
    /\ UNCHANGED <<sc_fs, sc_changes, m_store, sc_rowid, sc_deployment, sc_write, sc_verified>>
    /\ UNCHANGED notScanner

\* verify_baselines(directory) between scans.
Verify ==
    /\ sc_run.kind = "idle"
    /\ sc_verified' = [ran |-> TRUE, fs |-> sc_fs, before |-> m_store, after |-> m_store,
                       changes |-> verify_baselines(PathOrder, sc_fs, m_store, sc_deployment)]
    /\ UNCHANGED <<sc_fs, sc_changes, m_store, sc_rowid, sc_deployment, sc_run, sc_runs, sc_write>>
    /\ UNCHANGED notScanner

\* Another caller of the store inserts a baseline for a path, under the
\* deployment the strategy reports.
BaselineInsert(path) ==
    /\ sc_changes < MaxChanges
    /\ sc_run.pc = "next"
    /\ LET file == [present |-> TRUE, content |-> "one", mtime_ns |-> 0]
           baseline == MakeBaseline(path, get_file_metadata(file), hash_file(file),
                                    "manual", sc_deployment)
           inserted == insert(m_store, sc_rowid, baseline)
       IN  /\ m_store' = inserted.store
           /\ sc_rowid' = inserted.rowid
    /\ sc_changes' = sc_changes + 1
    /\ sc_runs' = <<>>
    /\ sc_verified' = NoVerify
    /\ UNCHANGED <<sc_fs, sc_deployment, sc_run, sc_write>>
    /\ UNCHANGED notScanner

\* Another caller of the store updates the baseline of a path.
BaselineUpdate(path) ==
    /\ sc_changes < MaxChanges
    /\ sc_run.pc = "next"
    /\ LET file == [present |-> TRUE, content |-> "three", mtime_ns |-> 0]
           baseline == MakeBaseline(path, get_file_metadata(file), hash_file(file),
                                    "manual", sc_deployment)
       IN  m_store' = update(m_store, baseline)
    /\ sc_changes' = sc_changes + 1
    /\ sc_runs' = <<>>
    /\ sc_verified' = NoVerify
    /\ UNCHANGED <<sc_fs, sc_rowid, sc_deployment, sc_run, sc_write>>
    /\ UNCHANGED notScanner

\* Another caller of the store deletes the baseline of a path.
BaselineDelete(path) ==
    /\ sc_changes < MaxChanges
    /\ sc_run.pc = "next"
    /\ m_store' = delete_by_path(m_store, path, sc_deployment)
    /\ sc_changes' = sc_changes + 1
    /\ sc_runs' = <<>>
    /\ sc_verified' = NoVerify
    /\ UNCHANGED <<sc_fs, sc_rowid, sc_deployment, sc_run, sc_write>>
    /\ UNCHANGED notScanner

ScanNext ==
    \/ \E path \in Paths, content \in Contents : WriteFile(path, content)
    \/ \E path \in Paths : RemoveFile(path)
    \/ \E kind \in {"directory", "user"} : ScanBegin(kind)
    \/ ScanEntry
    \/ ScanHash
    \/ ScanStore
    \/ ScanEnd
    \/ Verify
    \/ \E path \in Paths : BaselineInsert(path)
    \/ \E path \in Paths : BaselineUpdate(path)
    \/ \E path \in Paths : BaselineDelete(path)

InitScan ==
    /\ BusIdle
    /\ CorrIdle
    /\ DaemonIdle
    /\ DScanIdle
    /\ AuditIdle
    /\ JournalIdle
    /\ WorkerIdle
    /\ ScannerInit
    /\ DatabaseIdle
    /\ DispatcherIdle
    /\ FanotifyIdle
    /\ CleanupIdle
    /\ DrainsIdle
    /\ ReloadIdle

SpecScan == InitScan /\ [][ScanNext]_vars

(***************************************************************************)
(* Scanner and store: claims.                                              *)
(***************************************************************************)

\* The changes the last verification reported for a path.
ChangesFor(path) ==
    SelectSeq(sc_verified.changes, LAMBDA change : change.path = path)

\* The baselines the store held for a path before the last verification,
\* and holds after it.
BaselinesBefore(path) == {row \in sc_verified.before : Matches(row, path, sc_deployment)}

BaselinesAfter(path) == {row \in sc_verified.after : Matches(row, path, sc_deployment)}

\* A file with a baseline was overwritten with different contents before
\* the last verification.
Overwritten(path) ==
    /\ sc_verified.ran
    /\ sc_verified.fs[path].present
    /\ BaselinesBefore(path) # {}
    /\ \A row \in BaselinesBefore(path) : row.hash_value # hash_file(sc_verified.fs[path])

\* C15: after a file that has a baseline is overwritten with different
\* contents and its directory is verified, the verification has reported
\* exactly one change for the file, of type "modified", and the baseline the
\* store holds for the file has the hash of the new contents.
C15_ModifiedReportedAndRecorded ==
    \A path \in Paths :
        Overwritten(path) =>
            /\ ChangesFor(path) = <<[path |-> path, change_type |-> "modified"]>>
            /\ \A row \in BaselinesAfter(path) :
                   row.hash_value = hash_file(sc_verified.fs[path])

\* C16: a verification reports a change of type "deleted" for every
\* baseline under the verified directory whose file no longer exists.
C16_DeletedReported ==
    sc_verified.ran =>
        \A path \in Paths :
            (BaselinesBefore(path) # {} /\ ~sc_verified.fs[path].present) =>
                \E i \in 1..Len(sc_verified.changes) :
                    sc_verified.changes[i] = [path |-> path, change_type |-> "deleted"]

\* C17: when the same scan (directory or user-scope) has run twice over the
\* tree and nothing changed since the first run began, the second run
\* reports files_added = 0, files_updated = 0 and files_unchanged =
\* files_scanned, and has written no baseline row.
C17_SecondScanWritesNothing ==
    (Len(sc_runs) = 2 /\ sc_runs[1].clean /\ sc_runs[1].kind = sc_runs[2].kind) =>
        /\ sc_runs[2].stats.files_added = 0
        /\ sc_runs[2].stats.files_updated = 0
        /\ sc_runs[2].stats.files_unchanged = sc_runs[2].stats.files_scanned
        /\ sc_runs[2].writes = 0

\* C18: the store never holds two baseline rows for one (path, deployment)
\* pair, the pairs without a deployment included.
C18_OneRowPerPathAndDeployment ==
    \A row, other \in m_store :
        (row.path = other.path /\ row.deployment = other.deployment) => row = other

\* C19: a row the scanner wrote carries the size and mtime of the file
\* version whose bytes it hashed: nothing is written after a failed hash,
\* and metadata of one version is never paired with the hash of another.
C19_RowDescribesHashedBytes ==
    sc_write.written =>
        /\ sc_write.hashed.present
        /\ sc_write.row.hash_value = hash_file(sc_write.hashed)
        /\ sc_write.row.size = get_file_metadata(sc_write.hashed).size
        /\ sc_write.row.mtime_ns = get_file_metadata(sc_write.hashed).mtime_ns

(***************************************************************************)
(* Database schema installation (src/storage/database.cpp, schema.h).      *)
(***************************************************************************)

MaxVersion == 3
MaxOpens == 3
CURRENT_VERSION == 2

\* The tables init_schema creates for a new database, each with its
\* indices (lines 186-195).
SchemaTables == <<"baselines", "alerts", "scans">>

\* SELECT version FROM schema_version ORDER BY version DESC LIMIT 1, with 0
\* for an empty table (lines 217-234).
get_schema_version(versions) ==
    IF versions = {} THEN 0
    ELSE CHOOSE v \in versions : \A other \in versions : other <= v

\* The file on disk: a new one, or one left by a release whose current
\* version was v, which created the tables and recorded v.
DatabaseInit ==
    /\ db_pc = "closed"
    /\ \/ db_versions = {} /\ db_tables = {}
       \/ /\ \E v \in 1..MaxVersion : db_versions = {v}
          /\ db_tables = {"schema_version"} \cup Range(SchemaTables)
    /\ db_open = NoOpen
    /\ db_result = "none"
    /\ db_opens = 0

\* Database::open (lines 113-133) opens the file and calls init_schema.
OpenCall ==
    /\ db_pc = "closed"
    /\ db_opens < MaxOpens
    /\ db_opens' = db_opens + 1
    /\ db_open' = [NoOpen EXCEPT !.recorded = get_schema_version(db_versions)]
    /\ db_result' = "none"
    /\ db_pc' = "version_table"
    /\ UNCHANGED <<db_versions, db_tables>>
    /\ UNCHANGED notDatabase

\* execute(DDL_SCHEMA_VERSION) (lines 175-177): CREATE TABLE IF NOT EXISTS;
\* an engine error is returned to the caller.
CreateVersionTable(ok) ==
    /\ db_pc = "version_table"
    /\ IF ok
       THEN /\ db_tables' = db_tables \cup {"schema_version"}
            /\ db_pc' = "read"
            /\ UNCHANGED <<db_open, db_result>>
       ELSE /\ db_open' = [db_open EXCEPT !.engine_error = TRUE]
            /\ db_result' = "error"
            /\ db_pc' = "done"
            /\ UNCHANGED db_tables
    /\ UNCHANGED <<db_versions, db_opens>>
    /\ UNCHANGED notDatabase

\* get_schema_version().value_or(0) and the branch on it (lines 180-212):
\* 0 goes on to create the tables; a lower version than the current one is
\* refused with "Schema migration not yet implemented"; a higher one is
\* refused as newer than supported; the current one returns success.  A
\* failed step of the SELECT reads as version 0.
ReadVersion(ok) ==
    /\ db_pc = "read"
    /\ LET current_version == IF ok THEN get_schema_version(db_versions) ELSE 0
       IN  /\ db_open' = [db_open EXCEPT !.current_version = current_version,
                                         !.engine_error = @ \/ ~ok]
           /\ IF current_version = 0
              THEN db_pc' = "tables" /\ UNCHANGED db_result
              ELSE /\ db_pc' = "done"
                   /\ db_result' = IF current_version < CURRENT_VERSION THEN "error"
                                   ELSE IF current_version > CURRENT_VERSION THEN "error"
                                   ELSE "ok"
    /\ UNCHANGED <<db_versions, db_tables, db_opens>>
    /\ UNCHANGED notDatabase

\* The next CREATE TABLE IF NOT EXISTS of a new database (lines 186-195);
\* the first engine error is returned with the earlier tables left in place.
CreateTable(ok) ==
    /\ db_pc = "tables"
    /\ LET missing == SelectSeq(SchemaTables, LAMBDA table : table \notin db_tables)
       IN  /\ missing # <<>>
           /\ IF ok
              THEN /\ db_tables' = db_tables \cup {Head(missing)}
                   /\ UNCHANGED <<db_pc, db_open, db_result>>
              ELSE /\ db_open' = [db_open EXCEPT !.engine_error = TRUE]
                   /\ db_result' = "error"
                   /\ db_pc' = "done"
                   /\ UNCHANGED db_tables
    /\ UNCHANGED <<db_versions, db_opens>>
    /\ UNCHANGED notDatabase

\* set_schema_version(CURRENT_VERSION) (lines 198-200, 236-254): INSERT
\* INTO schema_version; version is the primary key, so a row that is
\* already there makes the insert fail.
SetVersion ==
    /\ db_pc = "tables"
    /\ \A i \in 1..Len(SchemaTables) : SchemaTables[i] \in db_tables
    /\ IF CURRENT_VERSION \in db_versions
       THEN /\ db_result' = "error"
            /\ db_open' = [db_open EXCEPT !.engine_error = TRUE]
            /\ UNCHANGED db_versions
       ELSE /\ db_versions' = db_versions \cup {CURRENT_VERSION}
            /\ db_result' = "ok"
            /\ UNCHANGED db_open
    /\ db_pc' = "done"
    /\ UNCHANGED <<db_tables, db_opens>>
    /\ UNCHANGED notDatabase

\* The Database is destroyed (lines 107-111) and the file can be opened
\* again.
Close ==
    /\ db_pc = "done"
    /\ db_pc' = "closed"
    /\ UNCHANGED <<db_versions, db_tables, db_open, db_result, db_opens>>
    /\ UNCHANGED notDatabase

DatabaseNext ==
    \/ OpenCall
    \/ \E ok \in BOOLEAN : CreateVersionTable(ok)
    \/ \E ok \in BOOLEAN : ReadVersion(ok)
    \/ \E ok \in BOOLEAN : CreateTable(ok)
    \/ SetVersion
    \/ Close

InitDatabase ==
    /\ BusIdle
    /\ CorrIdle
    /\ DaemonIdle
    /\ DScanIdle
    /\ AuditIdle
    /\ JournalIdle
    /\ WorkerIdle
    /\ ScannerIdle
    /\ DatabaseInit
    /\ DispatcherIdle
    /\ FanotifyIdle
    /\ CleanupIdle
    /\ DrainsIdle
    /\ ReloadIdle

SpecDatabase == InitDatabase /\ [][DatabaseNext]_vars

\* C20: an open that found a recorded schema version above zero and below
\* the current one, and met no engine error, has succeeded, has recorded
\* every version from the one it found up to the current one, and the
\* recorded version is the current one.
C20_ForwardMigration ==
    (db_pc = "done" /\ ~db_open.engine_error
        /\ 0 < db_open.recorded /\ db_open.recorded < CURRENT_VERSION) =>
        /\ db_result = "ok"
        /\ get_schema_version(db_versions) = CURRENT_VERSION
        /\ \A v \in db_open.recorded..CURRENT_VERSION : v \in db_versions

\* C21: the recorded schema version never decreases, and an open of a store
\* whose recorded version is above the supported one changes neither the
\* version rows nor the tables and returns an error.
C21_NewerStoreRefused ==
    /\ [][get_schema_version(db_versions') >= get_schema_version(db_versions)]_vars
    /\ [][(db_pc # "closed" /\ db_open.recorded > CURRENT_VERSION) =>
             /\ db_versions' = db_versions
             /\ db_tables' = db_tables
             /\ (db_pc' = "done" => db_result' = "error")]_vars

(***************************************************************************)
(* AlertDispatcher and AlertStore (src/dispatch/alert_dispatcher.cpp,      *)
(* src/storage/alert_store.cpp).                                           *)
(***************************************************************************)

MaxDelivered == 3
MaxAckCalls == 3

\* The events the bus delivers: variant, severity and source tag.
DispatchedEvents ==
    {[variant |-> "FileModified", severity |-> critical, source |-> "fanotify"],
     [variant |-> "FileCreated", severity |-> warning, source |-> "scanner"],
     [variant |-> "ScanCompleted", severity |-> info, source |-> "scanner"]}

\* The alert ids the store's clients name in their calls.
AlertIds == {1, 2}

\* The category event_to_alert gives each variant (lines 128-314).
AlertCategory(variant) ==
    CASE variant = "FileModified" -> "file_modified"
      [] variant = "FileCreated" -> "file_created"
      [] variant = "ScanCompleted" -> "scan_completed"
      [] OTHER -> ""

\* event_to_alert (lines 109-126): severity by the switch, source copied;
\* index is the position of the event among those the handler observed.
event_to_alert(event, index) ==
    [id |-> 0,
     severity |-> IF event.severity = info THEN "INFO"
                  ELSE IF event.severity = warning THEN "WARNING" ELSE "CRITICAL",
     category |-> AlertCategory(event.variant),
     source |-> event.source,
     acknowledged |-> FALSE,
     event |-> index]

\* AlertStore::insert: the row is appended with the next AUTOINCREMENT id.
insert_alert(store, alert) == Append(store, [alert EXCEPT !.id = Len(store) + 1])

\* UPDATE alerts SET acknowledged = 1 WHERE id = ?
acknowledge(store, alert_id) ==
    [i \in 1..Len(store) |->
        IF store[i].id = alert_id THEN [store[i] EXCEPT !.acknowledged = TRUE] ELSE store[i]]

\* An UPDATE that lost its WHERE clause.
unacknowledge_all(store, alert_id) ==
    [i \in 1..Len(store) |-> [store[i] EXCEPT !.acknowledged = FALSE]]

\* UPDATE alerts SET acknowledged = 0 WHERE id = ?
unacknowledge(store, alert_id) ==
    [i \in 1..Len(store) |->
        IF store[i].id = alert_id THEN [store[i] EXCEPT !.acknowledged = FALSE] ELSE store[i]]

\* Where handle_event goes after the insert (lines 91-106): it returns on a
\* failed insert, else the journal sink if enabled, else the D-Bus sink.
AfterInsert(ok, config) ==
    IF ~ok THEN "idle"
    ELSE IF config.log_to_journal THEN "journal"
    ELSE IF config.send_dbus THEN "dbus" ELSE "idle"

\* A dispatcher constructed with some configuration over an empty table.
DispatcherInit ==
    /\ ad_running = FALSE
    /\ ad_subscribed = 0
    /\ ad_left = 0
    /\ ad_config \in [log_to_journal : BOOLEAN, send_dbus : BOOLEAN]
    /\ ad_pc = "idle"
    /\ ad_alert = NoAlert
    /\ m_alert_store = <<>>
    /\ ad_observed = <<>>
    /\ ad_failed = {}
    /\ ad_sinks = <<>>
    /\ ad_ack = NoAck
    /\ ad_calls = 0

\* Bound: how many times start() subscribes a handler.
MaxStarts == 2

\* start() (lines 60-74) subscribes a handler that calls handle_event, keeps
\* the EventSubscription handle and sets m_running; subscribe() takes the
\* bus lock, which is free when no publish is calling handlers.
DispatcherStart ==
    /\ ~ad_running
    /\ ad_subscribed < MaxStarts
    /\ ad_pc = "idle"
    /\ ad_left = 0
    /\ ad_subscribed' = ad_subscribed + 1
    /\ ad_running' = TRUE
    /\ UNCHANGED <<ad_left, ad_config, ad_pc, ad_alert, m_alert_store,
                   ad_observed, ad_failed, ad_sinks, ad_ack, ad_calls>>
    /\ UNCHANGED notDispatcher

\* What stop() leaves of the dispatcher's entries on the bus (line 81):
\* m_subscription.reset() destroys the EventSubscription handle, which is a
\* plain id (events/event_bus.h:28-38); unsubscribe is not called.
after_stop(subscribed) == subscribed

\* stop() (lines 76-83): the handle is dropped and m_running cleared; no
\* lock is taken.
DispatcherStop ==
    /\ ad_running
    /\ ad_subscribed' = after_stop(ad_subscribed)
    /\ ad_running' = FALSE
    /\ UNCHANGED <<ad_left, ad_config, ad_pc, ad_alert, m_alert_store,
                   ad_observed, ad_failed, ad_sinks, ad_ack, ad_calls>>
    /\ UNCHANGED notDispatcher

\* How many publishes the handler has been called from.
Publishes == IF ad_observed = <<>> THEN 0
             ELSE ad_observed[Len(ad_observed)].publish

\* The handler is called with an event and builds the alert (line 87).
CallHandler(event, publish) ==
    /\ ad_observed' = Append(ad_observed,
                             [variant |-> event.variant, severity |-> event.severity,
                              source |-> event.source, publish |-> publish,
                              running |-> ad_running])
    /\ ad_alert' = event_to_alert(event, Len(ad_observed) + 1)
    /\ ad_pc' = "insert"

\* A component publishes an event: the bus, holding its lock, calls the
\* first of the dispatcher's entries; one handler call ends before the
\* next begins.
DispatcherHandle(event) ==
    /\ ad_subscribed > 0
    /\ ad_pc = "idle"
    /\ ad_left = 0
    /\ Publishes < MaxDelivered
    /\ CallHandler(event, Publishes + 1)
    /\ ad_left' = ad_subscribed - 1
    /\ UNCHANGED <<ad_running, ad_subscribed, ad_config, m_alert_store,
                   ad_failed, ad_sinks, ad_ack, ad_calls>>
    /\ UNCHANGED notDispatcher

\* The loop of the same publish reaches the next entry of the dispatcher
\* and calls the handler again with the same event.
DispatcherHandleAgain ==
    /\ ad_pc = "idle"
    /\ ad_left > 0
    /\ CallHandler(ad_observed[Len(ad_observed)], Publishes)
    /\ ad_left' = ad_left - 1
    /\ UNCHANGED <<ad_running, ad_subscribed, ad_config, m_alert_store,
                   ad_failed, ad_sinks, ad_ack, ad_calls>>
    /\ UNCHANGED notDispatcher

\* m_alert_store.insert(alert) (lines 90-96): on success the alert takes
\* the new id; on failure the handler reports it and returns.
DispatcherInsert(ok) ==
    /\ ad_pc = "insert"
    /\ IF ok
       THEN /\ m_alert_store' = insert_alert(m_alert_store, ad_alert)
            /\ ad_alert' = [ad_alert EXCEPT !.id = Len(m_alert_store) + 1]
            /\ ad_ack' = NoAck
            /\ UNCHANGED ad_failed
       ELSE /\ ad_failed' = ad_failed \cup {ad_alert.event}
            /\ UNCHANGED <<m_alert_store, ad_alert, ad_ack>>
    /\ ad_pc' = AfterInsert(ok, ad_config)
    /\ UNCHANGED <<ad_running, ad_subscribed, ad_left, ad_config, ad_observed, ad_sinks, ad_calls>>
    /\ UNCHANGED notDispatcher

\* log_to_journal(alert) (lines 99-101, 319-336).
LogToJournal ==
    /\ ad_pc = "journal"
    /\ ad_sinks' = Append(ad_sinks, [sink |-> "journal", id |-> ad_alert.id,
                                     event |-> ad_alert.event])
    /\ ad_pc' = IF ad_config.send_dbus THEN "dbus" ELSE "idle"
    /\ UNCHANGED <<ad_running, ad_subscribed, ad_left, ad_config, ad_alert, m_alert_store, ad_observed, ad_failed, ad_ack, ad_calls>>
    /\ UNCHANGED notDispatcher

\* send_dbus_notification(alert) (lines 104-106, 338-343).
SendDbus ==
    /\ ad_pc = "dbus"
    /\ ad_sinks' = Append(ad_sinks, [sink |-> "dbus", id |-> ad_alert.id,
                                     event |-> ad_alert.event])
    /\ ad_pc' = "idle"
    /\ UNCHANGED <<ad_running, ad_subscribed, ad_left, ad_config, ad_alert, m_alert_store, ad_observed, ad_failed, ad_ack, ad_calls>>
    /\ UNCHANGED notDispatcher

\* A client of the store acknowledges an alert id.
Acknowledge(alert_id) ==
    /\ ad_calls < MaxAckCalls
    /\ ad_calls' = ad_calls + 1
    /\ m_alert_store' = acknowledge(m_alert_store, alert_id)
    /\ ad_ack' = [stage |-> "acked", id |-> alert_id, before |-> m_alert_store,
                  after |-> <<>>]
    /\ UNCHANGED <<ad_running, ad_subscribed, ad_left, ad_config, ad_pc, ad_alert, ad_observed, ad_failed, ad_sinks>>
    /\ UNCHANGED notDispatcher

\* A client of the store unacknowledges an alert id.
Unacknowledge(alert_id) ==
    /\ ad_calls < MaxAckCalls
    /\ ad_calls' = ad_calls + 1
    /\ m_alert_store' = unacknowledge(m_alert_store, alert_id)
    /\ ad_ack' = IF ad_ack.stage = "acked" /\ ad_ack.id = alert_id
                 THEN [ad_ack EXCEPT !.stage = "done", !.after = m_alert_store']
                 ELSE NoAck
    /\ UNCHANGED <<ad_running, ad_subscribed, ad_left, ad_config, ad_pc, ad_alert, ad_observed, ad_failed, ad_sinks>>
    /\ UNCHANGED notDispatcher

DispatchNext ==
    \/ DispatcherStart
    \/ DispatcherStop
    \/ \E event \in DispatchedEvents : DispatcherHandle(event)
    \/ DispatcherHandleAgain
    \/ \E ok \in BOOLEAN : DispatcherInsert(ok)
    \/ LogToJournal
    \/ SendDbus

InitDispatch ==
    /\ BusIdle
    /\ CorrIdle
    /\ DaemonIdle
    /\ DScanIdle
    /\ AuditIdle
    /\ JournalIdle
    /\ WorkerIdle
    /\ ScannerIdle
    /\ DatabaseIdle
    /\ DispatcherInit
    /\ FanotifyIdle
    /\ CleanupIdle
    /\ DrainsIdle
    /\ ReloadIdle

SpecDispatch == InitDispatch /\ [][DispatchNext]_vars

\* The alerts table with its clients: a dispatcher that is started once
\* fills it, and the clients acknowledge and unacknowledge alerts.
AlertStoreNext ==
    \/ DispatcherStart
    \/ \E event \in DispatchedEvents : DispatcherHandle(event)
    \/ \E ok \in BOOLEAN : DispatcherInsert(ok)
    \/ LogToJournal
    \/ SendDbus
    \/ \E alert_id \in AlertIds : Acknowledge(alert_id)
    \/ \E alert_id \in AlertIds : Unacknowledge(alert_id)

SpecAlertStore == InitDispatch /\ [][AlertStoreNext]_vars

(***************************************************************************)
(* Dispatcher and alert store: claims.                                     *)
(***************************************************************************)

\* The events whose handler call has returned.
Handled == {k \in 1..Len(ad_observed) : k < Len(ad_observed) \/ ad_pc = "idle"}

\* The rows of the alerts table derived from the k-th observed event.
AlertsOf(k) == {i \in 1..Len(m_alert_store) : m_alert_store[i].event = k}

\* Rows are in the order of the events they came from, and each sink call
\* was made for an alert that is in the table under the id the sink was
\* given.
InsertedInOrderBeforeSinks ==
    /\ \A i, j \in 1..Len(m_alert_store) :
           i < j => m_alert_store[i].event < m_alert_store[j].event
    /\ \A s \in 1..Len(ad_sinks) :
           \E i \in AlertsOf(ad_sinks[s].event) : m_alert_store[i].id = ad_sinks[s].id

\* The publishes whose handler calls are all over, and the rows of the
\* alerts table that come from one publish.
Delivered ==
    {n \in 1..Publishes : n < Publishes \/ (ad_pc = "idle" /\ ad_left = 0)}

AlertsOfPublish(n) ==
    {i \in 1..Len(m_alert_store) : ad_observed[m_alert_store[i].event].publish = n}

\* The dispatcher was started when the bus delivered publish n.
DeliveredWhileStarted(n) ==
    \A k \in 1..Len(ad_observed) : ad_observed[k].publish = n => ad_observed[k].running

\* C22: every event delivered to the started dispatcher has exactly one
\* alert in the store, inserted before any sink was called, and the alerts
\* are in the order of the events.
C22_EveryEventOneAlert ==
    /\ \A n \in Delivered :
           DeliveredWhileStarted(n) => Cardinality(AlertsOfPublish(n)) = 1
    /\ InsertedInOrderBeforeSinks

\* C36: once stop() has returned the bus holds no entry that calls the
\* stopped dispatcher, and no event is handled, and so no alert inserted,
\* while the dispatcher is stopped.
C36_StoppedDispatcherUnsubscribed ==
    /\ ~ad_running => ad_subscribed = 0
    /\ \A k \in 1..Len(ad_observed) : ad_observed[k].running

\* The alert an acknowledge call named had its flag clear before the call.
WasUnacknowledged ==
    \A i \in 1..Len(ad_ack.before) :
        ad_ack.before[i].id = ad_ack.id => ~ad_ack.before[i].acknowledged

\* C26 as stated: acknowledge followed by unacknowledge of the same alert
\* leaves the whole table as it was before the acknowledge, whatever the
\* alert's flag was.
C26_AckUnackRestores ==
    ad_ack.stage = "done" => ad_ack.after = ad_ack.before

\* C26 amended: acknowledge followed by unacknowledge of an alert that was
\* not acknowledged before leaves the whole table as it was; an alert that
\* was acknowledged before ends unacknowledged, and no other alert changes.
C26_AckUnackRestoresUnacknowledged ==
    ad_ack.stage = "done" =>
        /\ WasUnacknowledged => ad_ack.after = ad_ack.before
        /\ Len(ad_ack.after) = Len(ad_ack.before)
        /\ \A i \in 1..Len(ad_ack.before) :
               ad_ack.after[i] = IF ad_ack.before[i].id = ad_ack.id
                                 THEN [ad_ack.before[i] EXCEPT !.acknowledged = FALSE]
                                 ELSE ad_ack.before[i]

\* C26 witness: the pair of calls ran on an unacknowledged alert while the
\* table held another alert that was acknowledged.
C26_Witness ==
    /\ ad_ack.stage = "done"
    /\ WasUnacknowledged
    /\ \E i, j \in 1..Len(ad_ack.before) :
           /\ ad_ack.before[i].id = ad_ack.id
           /\ ad_ack.before[j].id # ad_ack.id
           /\ ad_ack.before[j].acknowledged

(***************************************************************************)
(* FanotifyMonitor::handle_event (src/monitor/fanotify_monitor.cpp).       *)
(***************************************************************************)

\* The monitor runs over a tree and a store filled by earlier scans, with
\* the strategy's exclude list.
FanotifyInit ==
    /\ ScannerInit
    /\ fa_pc = "idle"
    /\ fa_exclude \in {{}, {"b"}}
    /\ fa_event = NoFanotifyEvent
    /\ fa_last = NoHandled

\* The kernel reports an event on a path (lines 213-246): an excluded path
\* or one that is not a regular file is skipped; otherwise the baseline is
\* looked up, and a failed lookup is taken like a missing baseline.
FanotifyLookup(path, ok) ==
    /\ fa_pc = "idle"
    /\ sc_run.kind = "idle"
    /\ IF path \in fa_exclude \/ ~sc_fs[path].present
       THEN UNCHANGED <<fa_pc, fa_event, fa_last>>
       ELSE /\ fa_event' = [path |-> path,
                            found |-> IF ok THEN find_by_path(m_store, path, sc_deployment)
                                      ELSE {}]
            /\ fa_last' = [NoHandled EXCEPT
                              !.path = path,
                              !.baselines = {row \in m_store : Matches(row, path, sc_deployment)}]
            /\ fa_pc' = "hash"
    /\ UNCHANGED fa_exclude
    /\ UNCHANGED notFanotify

\* hash_file and the publish (lines 236-245, 251-265): nothing is published
\* when the file cannot be hashed; without a baseline FileCreated at
\* warning; with one, FileModified at critical when the hashes differ.
FanotifyHash ==
    /\ fa_pc = "hash"
    /\ LET file == sc_fs[fa_event.path]
           baseline == CHOOSE row \in fa_event.found : TRUE
           events ==
               IF ~file.present THEN <<>>
               ELSE IF fa_event.found = {}
               THEN <<[variant |-> "FileCreated", severity |-> warning,
                       path |-> fa_event.path, hash |-> hash_file(file)]>>
               ELSE IF hash_file(file) # baseline.hash_value
               THEN <<[variant |-> "FileModified", severity |-> critical,
                       path |-> fa_event.path, old_hash |-> baseline.hash_value,
                       new_hash |-> hash_file(file)]>>
               ELSE <<>>
       IN  fa_last' = [fa_last EXCEPT !.handled = TRUE, !.hashed = file,
                                      !.published = events]
    /\ fa_event' = NoFanotifyEvent
    /\ fa_pc' = "idle"
    /\ UNCHANGED fa_exclude
    /\ UNCHANGED notFanotify

FanotifyNext ==
    \/ \E path \in Paths, content \in Contents : WriteFile(path, content)
    \/ \E path \in Paths : RemoveFile(path)
    \/ \E path \in Paths : BaselineInsert(path)
    \/ \E path \in Paths : BaselineUpdate(path)
    \/ \E path \in Paths, ok \in BOOLEAN : FanotifyLookup(path, ok)
    \/ FanotifyHash

InitFanotify ==
    /\ BusIdle
    /\ CorrIdle
    /\ DaemonIdle
    /\ DScanIdle
    /\ AuditIdle
    /\ JournalIdle
    /\ WorkerIdle
    /\ DatabaseIdle
    /\ DispatcherIdle
    /\ FanotifyInit
    /\ CleanupIdle
    /\ DrainsIdle
    /\ ReloadIdle

SpecFanotify == InitFanotify /\ [][FanotifyNext]_vars

\* C23: for a handled event on a regular, non-excluded file, FileCreated at
\* warning was published exactly when the store held no baseline for the
\* path, FileModified at critical with the baseline's hash and the current
\* hash exactly when it held one and the current hash differs from it, and
\* nothing else was published.
C23_PublishesByBaseline ==
    fa_last.handled =>
        LET created == \E i \in 1..Len(fa_last.published) :
                           /\ fa_last.published[i].variant = "FileCreated"
                           /\ fa_last.published[i].severity = warning
            modified == \E i \in 1..Len(fa_last.published) :
                           /\ fa_last.published[i].variant = "FileModified"
                           /\ fa_last.published[i].severity = critical
                           /\ fa_last.published[i].new_hash = hash_file(fa_last.hashed)
                           /\ \E row \in fa_last.baselines :
                                  fa_last.published[i].old_hash = row.hash_value
            differs == /\ fa_last.hashed.present
                       /\ \E row \in fa_last.baselines :
                              row.hash_value # hash_file(fa_last.hashed)
        IN  /\ created <=> fa_last.baselines = {}
            /\ modified <=> (fa_last.baselines # {} /\ differs)
            /\ Len(fa_last.published) <= 1

\* C24: every scan that finished, directory or user-scope, has published
\* exactly one ScanCompleted event, and the event carries the scan's counts.
C24_ScanCompletedPublished ==
    \A i \in 1..Len(sc_runs) :
        /\ Len(sc_runs[i].published) = 1
        /\ sc_runs[i].published[1].variant = "ScanCompleted"
        /\ sc_runs[i].published[1].files_scanned = sc_runs[i].stats.files_scanned

-----------------------------------------------------------------------------
(* CorrelationEngine::cleanup_old_entries as a function of the history map *)

\* Bound: how many ways the ages of the keys are laid over the key order.
MaxShift == 60

\* History maps around the cap. Key k is the k-th key in the order of the
\* std::map; every key holds one timestamp, and the timestamps run round the
\* keys starting at key shift + 1, so that the keys with the least recent
\* events are in general not the first keys of the map.
HistoryOf(n, shift) == [k \in 1..n |-> <<ClockBase + ((k + n - 1 - shift) % n)>>]

CleanupInit ==
    /\ \E n \in (MAX_TRACKED_KEYS - 1)..(MAX_TRACKED_KEYS + 1), shift \in 0..MaxShift :
          cl_history = HistoryOf(n, shift)
    /\ cl_result = <<>>
    /\ cl_pc = "call"

\* cleanup_old_entries() is called on the map (lines 142-151).
Cleanup ==
    /\ cl_pc = "call"
    /\ cl_result' = erase_first_half(cl_history, [k \in 1..Len(cl_history) |-> k])
    /\ cl_pc' = "returned"
    /\ UNCHANGED cl_history
    /\ UNCHANGED notCleanup

CleanupNext == Cleanup

InitCleanup ==
    /\ BusIdle
    /\ CorrIdle
    /\ DaemonIdle
    /\ DScanIdle
    /\ AuditIdle
    /\ JournalIdle
    /\ WorkerIdle
    /\ ScannerIdle
    /\ DatabaseIdle
    /\ DispatcherIdle
    /\ FanotifyIdle
    /\ CleanupInit
    /\ DrainsIdle
    /\ ReloadIdle

SpecCleanup == InitCleanup /\ [][CleanupNext]_vars

\* The most recent timestamp a key holds.
LatestOf(history, k) ==
    CHOOSE t \in Range(history[k]) : \A u \in Range(history[k]) : u <= t

-----------------------------------------------------------------------------
(* EventBus with handlers that publish on the bus they are called from *)

\* Handlers are subscribed with a severity filter; a filter of info lets
\* every event through, as a subscription without a filter does.
ReentrantNext ==
    \/ \E p \in Publishers, severity \in EventSeverity : PublishCall(p, severity)
    \/ \E p \in Publishers : PublishLock(p)
    \/ \E p \in Publishers : PublishStep(p)
    \/ \E p \in Publishers : HandlerPublishes(p)
    \/ \E p \in Publishers : PublishReturn(p)
    \/ \E min_severity \in EventSeverity : SubscribeSeverity(min_severity)
    \/ \E id \in 0..MaxSubs : UnsubscribeCall(id)
    \/ Unsubscribe

SpecReentrant == InitBus /\ [][ReentrantNext]_vars

\* C35: once a handler has called publish from inside its own invocation,
\* the publishing thread stands at the lock of the nested publish for ever,
\* still owning the mutex it is waiting for: the nested publish never
\* enters its loop and the outer publish never goes on or returns.
C35_NestedPublishBlocksForever ==
    [][\A p \in Publishers :
          pub[p].pc = "relock" =>
              /\ m_mutex = p
              /\ pub'[p] = pub[p]
              /\ m_mutex' = p
              /\ m_handlers' = m_handlers]_vars

\* C35 witness: the first of two handlers has called publish; the thread is
\* blocked with the second handler not called and an unsubscribe() waiting
\* for the mutex.
C35_Witness ==
    \E p \in Publishers :
        /\ pub[p].pc = "relock"
        /\ pub[p].i = 1
        /\ Len(m_handlers) = 2
        /\ unsub # 0


-----------------------------------------------------------------------------
(* CorrelationEngine::drain_escalated_events called from several threads *)

\* Bounds: how many escalations handlers buffer. The threads that call
\* drain_escalated_events.
MaxBuffered == 3
DrainThreads == {"main", "other"}

\* CorrelationEngine(event_bus, rules): the buffer is empty, nobody drains.
DrainsInit ==
    /\ dr_pending_events = <<>>
    /\ dr_pending_mutex = "free"
    /\ dr_events_to_publish = [t \in DrainThreads |-> <<>>]
    /\ dr_pc = [t \in DrainThreads |-> "idle"]
    /\ dr_buffered = 0
    /\ dr_published = <<>>

\* handle_event, lines 116-120: a handler whose rule fired takes
\* m_pending_mutex and appends the escalated event (numbered in buffering
\* order).
BufferEscalation ==
    /\ dr_buffered < MaxBuffered
    /\ dr_pending_mutex = "free"
    /\ dr_buffered' = dr_buffered + 1
    /\ dr_pending_events' = push_back(dr_pending_events, dr_buffered + 1)
    /\ UNCHANGED <<dr_pending_mutex, dr_events_to_publish, dr_pc, dr_published>>
    /\ UNCHANGED notDrains

\* Line 41: m_pending_events.clear().
clear_nothing(pending) == pending

clear(pending) == <<>>

\* Lines 36-41: thread t takes m_pending_mutex, moves the buffer into its
\* local events_to_publish and clears the buffer.
ConcurrentDrainTake(t) ==
    /\ dr_pc[t] = "idle"
    /\ dr_pending_mutex = "free"
    /\ dr_pending_mutex' = t
    /\ dr_events_to_publish' = [dr_events_to_publish EXCEPT
                                   ![t] = dr_pending_events]
    /\ dr_pending_events' = clear(dr_pending_events)
    /\ dr_pc' = [dr_pc EXCEPT ![t] = "unlock"]
    /\ UNCHANGED <<dr_buffered, dr_published>>
    /\ UNCHANGED notDrains

\* Line 42: the lock_guard's block ends.
ConcurrentDrainUnlock(t) ==
    /\ dr_pc[t] = "unlock"
    /\ dr_pending_mutex' = "free"
    /\ dr_pc' = [dr_pc EXCEPT ![t] = "publish"]
    /\ UNCHANGED <<dr_pending_events, dr_events_to_publish, dr_buffered,
                   dr_published>>
    /\ UNCHANGED notDrains

\* Lines 45-47: one event_bus.publish(event), without m_pending_mutex.
ConcurrentDrainPublish(t) ==
    /\ dr_pc[t] = "publish"
    /\ dr_events_to_publish[t] # <<>>
    /\ dr_published' = Append(dr_published,
                              [event |-> Head(dr_events_to_publish[t]),
                               thread |-> t])
    /\ dr_events_to_publish' = [dr_events_to_publish EXCEPT ![t] = Tail(@)]
    /\ UNCHANGED <<dr_pending_events, dr_pending_mutex, dr_pc, dr_buffered>>
    /\ UNCHANGED notDrains

\* Line 48: drain_escalated_events returns.
ConcurrentDrainReturn(t) ==
    /\ dr_pc[t] = "publish"
    /\ dr_events_to_publish[t] = <<>>
    /\ dr_pc' = [dr_pc EXCEPT ![t] = "idle"]
    /\ UNCHANGED <<dr_pending_events, dr_pending_mutex, dr_events_to_publish,
                   dr_buffered, dr_published>>
    /\ UNCHANGED notDrains

InitDrains ==
    /\ BusIdle
    /\ CorrIdle
    /\ DaemonIdle
    /\ DScanIdle
    /\ AuditIdle
    /\ JournalIdle
    /\ WorkerIdle
    /\ ScannerIdle
    /\ DatabaseIdle
    /\ DispatcherIdle
    /\ FanotifyIdle
    /\ CleanupIdle
    /\ DrainsInit
    /\ ReloadIdle

DrainsNext ==
    \/ BufferEscalation
    \/ \E t \in DrainThreads : ConcurrentDrainTake(t)
    \/ \E t \in DrainThreads : ConcurrentDrainUnlock(t)
    \/ \E t \in DrainThreads : ConcurrentDrainPublish(t)
    \/ \E t \in DrainThreads : ConcurrentDrainReturn(t)

SpecDrains == InitDrains /\ [][DrainsNext]_vars

\* How often escalation e stands in a sequence of published entries or of
\* buffered events.
TimesPublished(e) ==
    Cardinality({i \in 1..Len(dr_published) : dr_published[i].event = e})

TimesHeld(e) ==
    Cardinality({i \in 1..Len(dr_pending_events) : dr_pending_events[i] = e})
    + Cardinality({<<t, i>> \in DrainThreads \X (1..MaxBuffered + 1) :
                      /\ i <= Len(dr_events_to_publish[t])
                      /\ dr_events_to_publish[t][i] = e})

\* Every buffered escalation is either still held (in the buffer or in one
\* drain's local vector) or published, exactly once in all; once every
\* drain has returned with the buffer empty, each was published once.
NoneLostOrRepeated ==
    \A e \in 1..dr_buffered : TimesPublished(e) + TimesHeld(e) = 1

\* C38 as stated: whatever the interleaving of drains and handlers, no
\* buffered escalation is lost or published twice and the escalations are
\* published in the order they were buffered.
C38_ExactlyOnceInBufferingOrder ==
    /\ NoneLostOrRepeated
    /\ \A i, j \in 1..Len(dr_published) :
          i < j => dr_published[i].event < dr_published[j].event

\* C38 amended: no buffered escalation is lost or published twice, and the
\* escalations one thread publishes are in buffering order; two drains
\* that overlap may interleave their publishes.
C38_ExactlyOnceInOrderPerThread ==
    /\ NoneLostOrRepeated
    /\ \A i, j \in 1..Len(dr_published) :
          (i < j /\ dr_published[i].thread = dr_published[j].thread)
              => dr_published[i].event < dr_published[j].event

\* C38 witness: two drains overlapped while a handler buffered, and all
\* three escalations are published, by both threads.
C38_Witness ==
    /\ Len(dr_published) = MaxBuffered
    /\ \A t \in DrainThreads : \E i \in 1..Len(dr_published) :
          dr_published[i].thread = t
    /\ \E i \in 1..Len(dr_published) :
          /\ i < Len(dr_published)
          /\ dr_published[i].thread # dr_published[i + 1].thread
          /\ dr_pc[dr_published[i].thread] = "publish"


-----------------------------------------------------------------------------
(* SIGHUP: reload_config run by the signal handler *)

\* Bound: how many SIGHUPs are delivered.
MaxSignals == 3

\* The threads of the daemon; none of them blocks SIGHUP, so the kernel may
\* deliver it to any of them.
DaemonThreads == {"main", "audit", "scanner"}

\* Daemon::run has started the components (lines 215-264) with audit
\* enabled and installed signal_handler (lines 339-343).
ReloadInit ==
    /\ rl_pc = [t \in DaemonThreads |-> "loop"]
    /\ rl_handler = [t \in DaemonThreads |-> "none"]
    /\ rl_rules_mutex = "free"
    /\ rl_config_mutex = "free"
    /\ rl_signals = 0
    /\ rl_reloaded = 0

\* AuditMonitor::evaluate_event, line 216: the audit worker takes
\* m_rules_mutex and keeps it over the loop that publishes.
EvaluateEventLock ==
    /\ rl_pc["audit"] = "loop"
    /\ rl_handler["audit"] = "none"
    /\ lock_returns(rl_rules_mutex, "audit")
    /\ rl_rules_mutex' = "audit"
    /\ rl_pc' = [rl_pc EXCEPT !["audit"] = "evaluate"]
    /\ UNCHANGED <<rl_handler, rl_config_mutex, rl_signals, rl_reloaded>>
    /\ UNCHANGED notReload

\* AuditMonitor::evaluate_event, line 223: the lock_guard releases.
EvaluateEventReturn ==
    /\ rl_pc["audit"] = "evaluate"
    /\ rl_handler["audit"] = "none"
    /\ rl_rules_mutex' = "free"
    /\ rl_pc' = [rl_pc EXCEPT !["audit"] = "loop"]
    /\ UNCHANGED <<rl_handler, rl_config_mutex, rl_signals, rl_reloaded>>
    /\ UNCHANGED notReload

\* DistributedScanner::scanner_loop, lines 72 and 91: the scanner thread
\* takes m_config_mutex to read its configuration.
ScannerConfigLock ==
    /\ rl_pc["scanner"] = "loop"
    /\ rl_handler["scanner"] = "none"
    /\ lock_returns(rl_config_mutex, "scanner")
    /\ rl_config_mutex' = "scanner"
    /\ rl_pc' = [rl_pc EXCEPT !["scanner"] = "config"]
    /\ UNCHANGED <<rl_handler, rl_rules_mutex, rl_signals, rl_reloaded>>
    /\ UNCHANGED notReload

\* The scanner's lock_guard block ends.
ScannerConfigUnlock ==
    /\ rl_pc["scanner"] = "config"
    /\ rl_handler["scanner"] = "none"
    /\ rl_config_mutex' = "free"
    /\ rl_pc' = [rl_pc EXCEPT !["scanner"] = "loop"]
    /\ UNCHANGED <<rl_handler, rl_rules_mutex, rl_signals, rl_reloaded>>
    /\ UNCHANGED notReload

\* signal_handler(SIGHUP), lines 33-35, on thread t: it calls
\* reload_config, which loads the file and reaches update_config (line 321).
signal_handler(t) ==
    /\ rl_signals < MaxSignals
    /\ rl_handler[t] = "none"
    /\ rl_signals' = rl_signals + 1
    /\ rl_handler' = [rl_handler EXCEPT ![t] = "update_config"]
    /\ UNCHANGED <<rl_pc, rl_rules_mutex, rl_config_mutex, rl_reloaded>>
    /\ UNCHANGED notReload

\* reload_config, lines 320-322: DistributedScanner::update_config takes
\* m_config_mutex, assigns and releases (distributed_scanner.cpp:51-54).
ReloadUpdateConfig(t) ==
    /\ rl_handler[t] = "update_config"
    /\ lock_returns(rl_config_mutex, t)
    /\ rl_handler' = [rl_handler EXCEPT ![t] = "update_rules"]
    /\ UNCHANGED <<rl_pc, rl_rules_mutex, rl_config_mutex, rl_signals,
                   rl_reloaded>>
    /\ UNCHANGED notReload

\* reload_config, lines 325-336: AuditMonitor::update_rules takes
\* m_rules_mutex, assigns and releases (audit_monitor.cpp:102-106);
\* reload_config returns and the handler with it.
ReloadUpdateRules(t) ==
    /\ rl_handler[t] = "update_rules"
    /\ lock_returns(rl_rules_mutex, t)
    /\ rl_handler' = [rl_handler EXCEPT ![t] = "none"]
    /\ rl_reloaded' = rl_reloaded + 1
    /\ UNCHANGED <<rl_pc, rl_rules_mutex, rl_config_mutex, rl_signals>>
    /\ UNCHANGED notReload

InitReload ==
    /\ BusIdle
    /\ CorrIdle
    /\ DaemonIdle
    /\ DScanIdle
    /\ AuditIdle
    /\ JournalIdle
    /\ WorkerIdle
    /\ ScannerIdle
    /\ DatabaseIdle
    /\ DispatcherIdle
    /\ FanotifyIdle
    /\ CleanupIdle
    /\ DrainsIdle
    /\ ReloadInit

ReloadNext ==
    \/ EvaluateEventLock
    \/ EvaluateEventReturn
    \/ ScannerConfigLock
    \/ ScannerConfigUnlock
    \/ \E t \in DaemonThreads : signal_handler(t)
    \/ \E t \in DaemonThreads : ReloadUpdateConfig(t)
    \/ \E t \in DaemonThreads : ReloadUpdateRules(t)

SpecReload == InitReload /\ [][ReloadNext]_vars

\* C40: on whichever thread SIGHUP lands and whatever that thread holds,
\* the reload never waits on a mutex held by the thread it runs on.
C40_ReloadNeverWaitsOnOwnThread ==
    \A t \in DaemonThreads :
        /\ rl_handler[t] = "update_config" => rl_config_mutex # t
        /\ rl_handler[t] = "update_rules" => rl_rules_mutex # t

====
